---------------------------- MODULE Spec2Model ----------------------------
(***************************************************************************)
(* Model of the InkHarmony orchestration core:                             *)
(*   - core/workflow.py  : Phase, BookWorkflow (phase state machine)       *)
(*   - core/storage.py   : BookStorage.save_state / save_metadata          *)
(*   - core/messaging.py : MessageQueue (mailboxes and history)            *)
(***************************************************************************)
EXTENDS Integers, Sequences, FiniteSets, TLC

(***************************************************************************)
(* Bounds                                                                  *)
(***************************************************************************)
NumPhases == 3      \* length of the configured phase sequence
MaxCalls == 5       \* length of the call sequences explored on one workflow
MaxMsgs == 3        \* messages sent on the bus

None == 0           \* Python None for Optional[str] / Optional[float] fields

PENDING == "pending"
RUNNING == "running"
PAUSED == "paused"
COMPLETED == "completed"
FAILED == "failed"

\* config.WORKFLOW_PHASES: the ordered phase names, here 1..NumPhases
WORKFLOW_PHASES == [i \in 1..NumPhases |-> i]
PhaseNames == {WORKFLOW_PHASES[i] : i \in 1..NumPhases}
UnknownPhase == NumPhases + 1
AgentIds == {"maestro", "outline"}
TaskIds == {"t1"}
Payloads == {"a", "b"}
Reasons == {"e1", "e2"}

\* list.index
IndexOf(seq, x) == CHOOSE i \in 1..Len(seq) : seq[i] = x

\* dict[key] = value
DictSet(d, k, v) == [x \in (DOMAIN d) \cup {k} |-> IF x = k THEN v ELSE d[x]]

EmptyDict == [x \in {} |-> 0]

VARIABLES
    workflow,       \* the in-memory BookWorkflow object
    state_file,     \* state.pickle of the book: <<>> or <<snapshot>>
    metadata_file,  \* metadata.json of the book: <<>> or <<dict>>
    last_op,        \* the operation performed by the last step
    ncalls,         \* number of calls made so far; time.time() grows with it
    pre_pause,      \* <<world before pause()>> from a pause() to the resume() right after it
    run,            \* complete_phase() calls since a start() from Pending, -1 if interrupted
    failed_phase,   \* current_phase at the latest fail() call
    last_arg        \* the arguments of the last call, as a sequence

VARIABLES
    queues,         \* MessageQueue.queues: agent id -> mailbox
    history,        \* MessageQueue.history
    sent,           \* every message a caller passed to send_message, in call order
    delivered,      \* per agent, the batches get_messages has returned, concatenated
    returned,       \* the list returned by the last call that returns messages
    bus_op          \* the last bus call: [op, agent]

VARIABLES
    spc,            \* sending thread: its position in send_message
    sref,           \* sending thread: is the list it loaded still the recipient's mailbox
    rpc,            \* receiving thread: its position in get_messages
    messages        \* receiving thread: the local `messages` of get_messages

VARIABLES
    active_workflows, \* WorkflowManager.active_workflows: book id -> BookWorkflow
    disk,           \* BOOK_STORAGE_DIR: book id -> the two files of the book's directory
    mgr_op,         \* the last manager call: [op, book_id, result, loaded]
    created,        \* the ids create_workflow has returned, in call order
    last_saved,     \* per book id, the workflow in memory when its last mutating call returned
    mcalls          \* number of manager calls made so far

VARIABLES
    components,     \* components/ of one book: name -> (file label -> file content)
    st_op,          \* the last storage call: [op, name, version, result]
    saves,          \* the save_component calls so far: [name, version, content, label]
    now             \* the system clock, in ticks

VARIABLES
    fs,             \* the files under BOOK_STORAGE_DIR: path -> content
    fs_op           \* the last call on a storage handle: [op, book_id, n]

VARIABLES
    batch,          \* agent -> the messages of the drained batch still to handle
    handled,        \* agent -> the messages _process_message was called with
    loop            \* agent -> "running", or "dead" once run() was left

VARIABLES
    retry,          \* the call of complete_with_retry / generate_with_retry
    request,        \* the call of assign_task / progress_workflow
    creation,       \* the call of start_book_creation
    conversation    \* the call of get_conversation, loop by loop

wfvars == <<workflow, state_file, metadata_file>>
mgrvars == <<active_workflows, disk, mgr_op, created, last_saved, mcalls>>
compvars == <<components, st_op, saves>>
fsvars == <<fs, fs_op>>
agentvars == <<batch, handled, loop>>
callvars == <<retry, request, creation, conversation>>
storevars_but_calls == <<active_workflows, disk, mgr_op, created, last_saved,
                         mcalls, components, st_op, saves, now, fs, fs_op,
                         batch, handled, loop>>
storevars == <<active_workflows, disk, mgr_op, created, last_saved, mcalls,
               components, st_op, saves, now, fs, fs_op, batch, handled, loop,
               retry, request, creation, conversation>>
ghostvars == <<last_op, ncalls, pre_pause, run, failed_phase, last_arg>>
busvars == <<queues, history, sent, delivered, returned, bus_op>>
threadvars == <<spc, sref, rpc, messages>>
vars == <<workflow, state_file, metadata_file, last_op, ncalls, pre_pause, run,
          failed_phase, last_arg, queues, history, sent, delivered, returned, bus_op,
          spc, sref, rpc, messages, active_workflows, disk, mgr_op, created,
          last_saved, mcalls, components, st_op, saves, now, fs, fs_op, batch,
          handled, loop, retry, request, creation, conversation>>

(***************************************************************************)
(* Phase (workflow.py 43-87)                                               *)
(***************************************************************************)
NewPhase(name) ==
    [name |-> name, status |-> PENDING, started_at |-> None,
     completed_at |-> None, tasks |-> EmptyDict, results |-> EmptyDict,
     errors |-> <<>>]

Phase_start(ph, t) == [ph EXCEPT !.status = RUNNING, !.started_at = t]

Phase_complete(ph, t) == [ph EXCEPT !.status = COMPLETED, !.completed_at = t]

\* Phase.fail that keeps only the latest error
Phase_fail_latest(ph, error) ==
    [ph EXCEPT !.status = FAILED, !.errors = <<error>>]

Phase_fail(ph, error) ==
    [ph EXCEPT !.status = FAILED, !.errors = Append(@, error)]

Phase_pause(ph) == [ph EXCEPT !.status = PAUSED]

Phase_add_task(ph, task_id, task_data) ==
    [ph EXCEPT !.tasks = DictSet(@, task_id, task_data)]

Phase_add_result(ph, task_id, result_data) ==
    [ph EXCEPT !.results = DictSet(@, task_id, result_data)]

(***************************************************************************)
(* BookWorkflow (workflow.py 90-297).  The operations are functions of a   *)
(* world W = [wf, state_file, metadata_file]: the object and its files.    *)
(***************************************************************************)
NewWorkflow(metadata) ==
    [status |-> PENDING, started_at |-> None, completed_at |-> None,
     current_phase |-> None,
     phases |-> [p \in PhaseNames |-> NewPhase(p)],
     metadata |-> metadata]

\* the flattened projection written by save_state (workflow.py 268-276)
MetadataProjection(wf) ==
    [k \in (DOMAIN wf.metadata) \cup
           {"status", "current_phase", "started_at", "completed_at"} |->
        CASE k = "status" -> wf.status
          [] k = "current_phase" -> wf.current_phase
          [] k = "started_at" -> wf.started_at
          [] k = "completed_at" -> wf.completed_at
          [] OTHER -> wf.metadata[k]]

save_state(W) ==
    [W EXCEPT !.state_file = <<W.wf>>,
              !.metadata_file = <<MetadataProjection(W.wf)>>]

complete(W, t) ==
    save_state([W EXCEPT !.wf.status = COMPLETED,
                         !.wf.completed_at = t,
                         !.wf.current_phase = None])

RECURSIVE start_phase(_, _, _)
RECURSIVE complete_phase(_, _)

\* complete_phase with the last-phase test off by one: the workflow is
\* completed when the phase before the last one completes
complete_phase_early(W, t) ==
    IF W.wf.current_phase = None THEN W
    ELSE
      LET cur == W.wf.current_phase
          W1 == [W EXCEPT !.wf.phases[cur] = Phase_complete(@, t)]
          current_index == IndexOf(WORKFLOW_PHASES, cur)
      IN IF current_index < Len(WORKFLOW_PHASES) - 1
           THEN save_state(start_phase([W1 EXCEPT !.wf.current_phase = None],
                                       WORKFLOW_PHASES[current_index + 1], t))
           ELSE save_state(complete(W1, t))

\* phase_name is a configured phase (the ValueError branch is in StartPhase)
start_phase(W, phase_name, t) ==
    LET W1 == IF W.wf.current_phase # None THEN complete_phase(W, t) ELSE W
        W2 == [W1 EXCEPT !.wf.current_phase = phase_name,
                         !.wf.phases[phase_name] = Phase_start(@, t)]
    IN save_state(W2)

complete_phase(W, t) ==
    IF W.wf.current_phase = None THEN W
    ELSE
      LET cur == W.wf.current_phase
          W1 == [W EXCEPT !.wf.phases[cur] = Phase_complete(@, t)]
          current_index == IndexOf(WORKFLOW_PHASES, cur)
      IN IF current_index < Len(WORKFLOW_PHASES)
           THEN save_state(start_phase([W1 EXCEPT !.wf.current_phase = None],
                                       WORKFLOW_PHASES[current_index + 1], t))
           ELSE save_state(complete(W1, t))

start(W, t) ==
    start_phase([W EXCEPT !.wf.status = RUNNING, !.wf.started_at = t],
                WORKFLOW_PHASES[1], t)

fail(W, error) ==
    LET W1 == [W EXCEPT !.wf.status = FAILED]
        W2 == IF W1.wf.current_phase # None
                THEN [W1 EXCEPT !.wf.phases[W1.wf.current_phase] =
                                    Phase_fail(@, error)]
                ELSE W1
    IN save_state(W2)

pause(W) ==
    LET W1 == [W EXCEPT !.wf.status = PAUSED]
        W2 == IF W1.wf.current_phase # None
                THEN [W1 EXCEPT !.wf.phases[W1.wf.current_phase] =
                                    Phase_pause(@)]
                ELSE W1
    IN save_state(W2)

\* resume that restores the workflow status but leaves the phase Paused
resume_workflow_only(W) ==
    IF W.wf.status # PAUSED THEN W
    ELSE save_state([W EXCEPT !.wf.status = RUNNING])

resume(W) ==
    IF W.wf.status # PAUSED THEN W
    ELSE
      LET W1 == [W EXCEPT !.wf.status = RUNNING]
          W2 == IF W1.wf.current_phase # None
                  THEN [W1 EXCEPT !.wf.phases[W1.wf.current_phase].status =
                                      RUNNING]
                  ELSE W1
      IN save_state(W2)

\* add_task that does not save the state
add_task_unsaved(W, task_id, task_data) ==
    IF W.wf.current_phase = None THEN W
    ELSE [W EXCEPT !.wf.phases[W.wf.current_phase] =
                       Phase_add_task(@, task_id, task_data)]

add_task(W, task_id, task_data) ==
    IF W.wf.current_phase = None THEN W
    ELSE save_state([W EXCEPT !.wf.phases[W.wf.current_phase] =
                                  Phase_add_task(@, task_id, task_data)])

\* add_result that files the result under the first phase when no phase is
\* current
add_result_first_phase(W, task_id, result_data) ==
    LET p == IF W.wf.current_phase = None
               THEN WORKFLOW_PHASES[1] ELSE W.wf.current_phase
    IN save_state([W EXCEPT !.wf.phases[p] =
                                Phase_add_result(@, task_id, result_data)])

add_result(W, task_id, result_data) ==
    IF W.wf.current_phase = None THEN W
    ELSE save_state([W EXCEPT !.wf.phases[W.wf.current_phase] =
                                  Phase_add_result(@, task_id, result_data)])

(***************************************************************************)
(* Specification of one BookWorkflow driven by arbitrary calls.            *)
(***************************************************************************)
World == [wf |-> workflow, state_file |-> state_file,
          metadata_file |-> metadata_file]

\* WorkflowManager.create_workflow (workflow.py 307-326): construct, attach
\* metadata, persist the initial state
create_workflow(metadata) ==
    save_state([wf |-> NewWorkflow(metadata), state_file |-> <<>>,
                metadata_file |-> <<>>])

BookMetadata == [k \in {"title"} |-> "t"]

\* time.time(): later calls read later times
time_time == ncalls + 1

WorkflowInit ==
    /\ workflow = create_workflow(BookMetadata).wf
    /\ state_file = create_workflow(BookMetadata).state_file
    /\ metadata_file = create_workflow(BookMetadata).metadata_file
    /\ last_op = "create"
    /\ ncalls = 0
    /\ pre_pause = <<>>
    /\ run = -1
    /\ failed_phase = None
    /\ last_arg = <<>>

\* MessageQueue.__init__ (messaging.py 60-62)
BusInit ==
    /\ queues = EmptyDict
    /\ history = <<>>
    /\ sent = <<>>
    /\ delivered = [a \in AgentIds |-> <<>>]
    /\ returned = <<>>
    /\ bus_op = [op |-> "init", agent |-> "none"]

ThreadsIdle ==
    /\ spc = "idle"
    /\ sref = "none"
    /\ rpc = "idle"
    /\ messages = <<>>

\* WorkflowManager.__init__ (workflow.py 303-305) over an empty storage
\* directory
ManagerInit ==
    /\ active_workflows = EmptyDict
    /\ disk = EmptyDict
    /\ mgr_op = [op |-> "init", book_id |-> None, result |-> <<>>,
                 loaded |-> FALSE]
    /\ created = <<>>
    /\ last_saved = EmptyDict
    /\ mcalls = 0

\* BookStorage.__init__ (storage.py 22-40) of a new book: no component yet
StorageInit ==
    /\ components = EmptyDict
    /\ st_op = [op |-> "init", name |-> "none", version |-> "none",
                result |-> <<>>]
    /\ saves = <<>>
    /\ now = 0

\* an empty BOOK_STORAGE_DIR
FilesInit ==
    /\ fs = EmptyDict
    /\ fs_op = [op |-> "init", book_id |-> <<>>, n |-> 0]

\* the agents before their threads are started
AgentsInit ==
    /\ batch = [a \in AgentIds |-> <<>>]
    /\ handled = [a \in AgentIds |-> <<>>]
    /\ loop = [a \in AgentIds |-> "running"]

\* no call of a retry wrapper is under way
NoCall == [pc |-> "idle", backend |-> "none", max_retries |-> 0,
           retry_delay |-> 0, attempt |-> 0, calls |-> <<>>, sleeps |-> <<>>,
           value |-> <<>>]

\* no request of the facade is under way
NoRequest == [pc |-> "idle", op |-> "none", message_id |-> None,
              waited |-> 0, value |-> <<>>]

NoCreation == [pc |-> "idle", message_id |-> None, messages |-> <<>>,
               value |-> <<>>]

\* turn tells the passes of the loop apart
NoConversation == [pc |-> "idle", root_msg |-> <<>>, turn |-> 0]

CallsInit ==
    /\ retry = NoCall
    /\ request = NoRequest
    /\ creation = NoCreation
    /\ conversation = NoConversation

StoreInit ==
    ManagerInit /\ StorageInit /\ FilesInit /\ AgentsInit /\ CallsInit

Init == WorkflowInit /\ BusInit /\ ThreadsIdle /\ StoreInit

\* the step taken by a call that maps World to W2
Call(op, W2) ==
    /\ ncalls < MaxCalls
    /\ workflow' = W2.wf
    /\ state_file' = W2.state_file
    /\ metadata_file' = W2.metadata_file
    /\ last_op' = op
    /\ ncalls' = ncalls + 1
    /\ UNCHANGED <<busvars, threadvars, storevars>>

Start ==
    /\ Call("start", start(World, time_time))
    /\ run' = IF workflow.status = PENDING /\ workflow.current_phase = None
                THEN 0 ELSE -1
    /\ pre_pause' = <<>>
    /\ last_arg' = <<>>
    /\ UNCHANGED failed_phase

StartPhase ==
    \E phase_name \in PhaseNames \cup {UnknownPhase} :
        /\ IF phase_name \notin DOMAIN workflow.phases
             THEN Call("start_phase_error", World)      \* raise ValueError
             ELSE Call("start_phase", start_phase(World, phase_name, time_time))
        /\ run' = -1
        /\ pre_pause' = <<>>
        /\ last_arg' = <<phase_name>>
        /\ UNCHANGED failed_phase

CompletePhase ==
    /\ Call("complete_phase", complete_phase(World, time_time))
    /\ run' = IF run >= 0 /\ run < NumPhases THEN run + 1 ELSE -1
    /\ pre_pause' = <<>>
    /\ last_arg' = <<>>
    /\ UNCHANGED failed_phase

Pause ==
    /\ Call("pause", pause(World))
    /\ run' = -1
    /\ pre_pause' = <<World>>
    /\ last_arg' = <<>>
    /\ UNCHANGED failed_phase

Resume ==
    /\ Call("resume", resume(World))
    /\ run' = -1
    /\ pre_pause' = IF last_op = "pause" THEN pre_pause ELSE <<>>
    /\ last_arg' = <<>>
    /\ UNCHANGED failed_phase

Fail ==
    \E error \in Reasons :
        /\ Call("fail", fail(World, error))
        /\ run' = -1
        /\ pre_pause' = <<>>
        /\ last_arg' = <<error>>
        /\ failed_phase' = workflow.current_phase

AddTask ==
    \E task_id \in TaskIds, task_data \in Payloads :
        /\ Call("add_task", add_task(World, task_id, task_data))
        /\ run' = -1
        /\ pre_pause' = <<>>
        /\ last_arg' = <<task_id, task_data>>
        /\ UNCHANGED failed_phase

AddResult ==
    \E task_id \in TaskIds, result_data \in Payloads :
        /\ Call("add_result", add_result(World, task_id, result_data))
        /\ run' = -1
        /\ pre_pause' = <<>>
        /\ last_arg' = <<task_id, result_data>>
        /\ UNCHANGED failed_phase

\* every operation of BookWorkflow, start_phase included
Next ==
    \/ Start
    \/ StartPhase
    \/ CompletePhase
    \/ Pause
    \/ Resume
    \/ Fail
    \/ AddTask
    \/ AddResult

Spec == Init /\ [][Next]_vars

\* the operations a caller drives the workflow with (start_phase is the
\* internal primitive behind start and complete_phase)
NextCalls ==
    \/ Start
    \/ CompletePhase
    \/ Pause
    \/ Resume
    \/ Fail
    \/ AddTask
    \/ AddResult

SpecCalls == Init /\ [][NextCalls]_vars

TypeOK ==
    /\ workflow.status \in {PENDING, RUNNING, PAUSED, COMPLETED, FAILED}
    /\ workflow.current_phase \in PhaseNames \cup {None}
    /\ Len(state_file) <= 1

(***************************************************************************)
(* Properties of the workflow state machine                                *)
(***************************************************************************)
RunningPhases == {p \in PhaseNames : workflow.phases[p].status = RUNNING}

PhaseStatuses(wf) == [p \in PhaseNames |-> wf.phases[p].status]

\* C1: at most one phase is Running, and a Running phase is current_phase
\* (any sequence of start, complete_phase, pause, resume, fail)
C1_SingleRunningPhase ==
    /\ Cardinality(RunningPhases) <= 1
    /\ \A p \in RunningPhases : p = workflow.current_phase

\* C2: after start() from Pending and k complete_phase() calls, k < N, phases
\* 1..k are Completed, phase k+1 is Running and current, later phases are
\* Pending and the workflow is Running; after N calls it is Completed
C2_OrderedCompletion ==
    run >= 0 =>
        IF run < NumPhases
          THEN /\ workflow.status = RUNNING
               /\ workflow.current_phase = WORKFLOW_PHASES[run + 1]
               /\ \A i \in 1..NumPhases :
                      workflow.phases[WORKFLOW_PHASES[i]].status =
                          IF i <= run THEN COMPLETED
                          ELSE IF i = run + 1 THEN RUNNING ELSE PENDING
          ELSE /\ workflow.status = COMPLETED
               /\ workflow.current_phase = None
               /\ \A p \in PhaseNames : workflow.phases[p].status = COMPLETED

C2_Witness ==
    /\ run = NumPhases
    /\ workflow.status = COMPLETED
    /\ \A p \in PhaseNames : workflow.phases[p].status = COMPLETED

\* C3: a Completed workflow has no current_phase and only Completed phases
C3_CompletedIsClean ==
    workflow.status = COMPLETED =>
        /\ workflow.current_phase = None
        /\ \A p \in PhaseNames : workflow.phases[p].status = COMPLETED

\* C4: once the workflow is Failed, no call changes its status, its
\* current_phase or the status of a phase
C4_FailedIsTerminal ==
    [][workflow.status = FAILED =>
          /\ workflow'.status = FAILED
          /\ workflow'.current_phase = workflow.current_phase
          /\ PhaseStatuses(workflow') = PhaseStatuses(workflow)]_vars

\* C5: once the workflow is Completed, no call changes its status, its
\* current_phase or the status of a phase
C5_CompletedIsImmutable ==
    [][workflow.status = COMPLETED =>
          /\ workflow'.status = COMPLETED
          /\ workflow'.current_phase = workflow.current_phase
          /\ PhaseStatuses(workflow') = PhaseStatuses(workflow)]_vars

\* C6: while the workflow is Failed, the phase that was current when fail()
\* was called is Failed
C6_FailedPhaseStaysFailed ==
    (workflow.status = FAILED /\ failed_phase # None) =>
        workflow.phases[failed_phase].status = FAILED

\* C7: the status of the current phase agrees with the workflow status:
\* Running with Running, Paused with Paused, Failed with Failed
C7_PhaseAgreesWithWorkflow ==
    (workflow.current_phase # None
        /\ workflow.status \in {RUNNING, PAUSED, FAILED}) =>
        workflow.phases[workflow.current_phase].status = workflow.status

\* C8: pause() then resume() on a Running workflow with current_phase p gives
\* the workflow as it was, with phase p Running (status, current_phase, tasks,
\* results, errors and timestamps as before the pause); resume() on a
\* workflow that is not Paused changes nothing
C8_PauseResumeRoundTrip ==
    /\ [](/\ last_op = "resume"
          /\ pre_pause # <<>>
          /\ pre_pause[1].wf.status = RUNNING
          /\ pre_pause[1].wf.current_phase # None
          => workflow =
               [pre_pause[1].wf EXCEPT
                   !.phases[pre_pause[1].wf.current_phase].status = RUNNING])
    /\ [][(last_op' = "resume" /\ workflow.status # PAUSED)
              => UNCHANGED wfvars]_vars

C8_Witness ==
    /\ last_op = "resume"
    /\ pre_pause # <<>>
    /\ pre_pause[1].wf.status = RUNNING
    /\ pre_pause[1].wf.current_phase # None
    /\ workflow.status = RUNNING
    /\ workflow.phases[workflow.current_phase].tasks # EmptyDict

\* C14: when a call of start, start_phase, complete_phase, pause, resume,
\* fail, add_task or add_result has returned, state.pickle holds a snapshot
\* and metadata.json a projection with the status, the current phase and
\* (the snapshot) every phase's status, tasks and results of the workflow
\* in memory
C14_SnapshotNeverLags ==
    last_op \in {"start", "start_phase", "complete_phase", "pause", "resume",
                 "fail", "add_task", "add_result"}
        => /\ state_file # <<>>
           /\ metadata_file # <<>>
           /\ state_file[1].status = workflow.status
           /\ state_file[1].current_phase = workflow.current_phase
           /\ \A p \in PhaseNames :
                 /\ state_file[1].phases[p].status = workflow.phases[p].status
                 /\ state_file[1].phases[p].tasks = workflow.phases[p].tasks
                 /\ state_file[1].phases[p].results = workflow.phases[p].results
           /\ metadata_file[1]["status"] = workflow.status
           /\ metadata_file[1]["current_phase"] = workflow.current_phase

C14_Witness ==
    /\ last_op = "add_task"
    /\ workflow.current_phase = 2
    /\ workflow.phases[2].tasks # EmptyDict
    /\ state_file[1].phases[2].tasks = workflow.phases[2].tasks
    /\ metadata_file[1]["current_phase"] = 2

\* C20: start_phase(name) called while another phase is current leaves that
\* phase Completed and the named phase Running and current, with no other
\* phase Running and the workflow not Completed
C20_StartPhaseSwitches ==
    [][(/\ last_op' = "start_phase"
        /\ workflow.current_phase # None
        /\ workflow'.current_phase # workflow.current_phase)
          => /\ workflow'.phases[workflow.current_phase].status = COMPLETED
             /\ workflow'.phases[workflow'.current_phase].status = RUNNING
             /\ \A p \in PhaseNames :
                   workflow'.phases[p].status = RUNNING
                       => p = workflow'.current_phase
             /\ workflow'.status # COMPLETED]_vars

\* C21: fail(reason) makes the workflow Failed; with a current phase p it
\* makes p Failed and adds reason as the one new last entry of p's errors;
\* current_phase, the other phases, p's tasks and results and every
\* timestamp stay as they were; with no current phase only the status changes
C21_FailFrame ==
    [][(last_op' = "fail" /\ ncalls' # ncalls)
          => LET p == workflow.current_phase
             IN /\ workflow'.status = FAILED
                /\ workflow'.current_phase = p
                /\ workflow'.started_at = workflow.started_at
                /\ workflow'.completed_at = workflow.completed_at
                /\ workflow'.metadata = workflow.metadata
                /\ \A q \in PhaseNames \ {p} :
                      workflow'.phases[q] = workflow.phases[q]
                /\ p # None =>
                      /\ workflow'.phases[p].status = FAILED
                      /\ workflow'.phases[p].errors =
                             Append(workflow.phases[p].errors, last_arg'[1])
                      /\ workflow'.phases[p].tasks = workflow.phases[p].tasks
                      /\ workflow'.phases[p].results =
                             workflow.phases[p].results
                      /\ workflow'.phases[p].started_at =
                             workflow.phases[p].started_at
                      /\ workflow'.phases[p].completed_at =
                             workflow.phases[p].completed_at]_vars

C21_Witness ==
    /\ last_op = "fail"
    /\ workflow.current_phase = 2
    /\ workflow.status = FAILED
    /\ workflow.phases[2].status = FAILED
    /\ workflow.phases[2].errors = <<"e1", "e2">>
    /\ workflow.phases[1].status = COMPLETED

\* C22: add_task, add_result and complete_phase called with no current
\* phase return with the workflow and its two files as they were;
\* start_phase raises exactly for a name that is not a configured phase, and
\* then the workflow and its files are as they were
C22_NoActivePhaseNoOp ==
    /\ [][(/\ last_op' \in {"add_task", "add_result", "complete_phase"}
           /\ ncalls' # ncalls
           /\ workflow.current_phase = None)
             => UNCHANGED wfvars]_vars
    /\ [][(last_op' = "start_phase_error" /\ ncalls' # ncalls)
             => /\ UNCHANGED wfvars
                /\ last_arg'[1] \notin PhaseNames]_vars
    /\ [][(last_op' = "start_phase" /\ ncalls' # ncalls)
             => last_arg'[1] \in PhaseNames]_vars

C22_Witness ==
    /\ last_op = "add_result"
    /\ workflow.current_phase = None
    /\ workflow.status = COMPLETED
    /\ \A p \in PhaseNames : workflow.phases[p].results = EmptyDict
    /\ state_file = <<workflow>>

\* C24: a phase with completed_at set is Completed, and a phase that is
\* not Pending has started_at set
C24_PhaseTimestamps ==
    \A p \in PhaseNames :
        /\ workflow.phases[p].completed_at # None
              => workflow.phases[p].status = COMPLETED
        /\ workflow.phases[p].status # PENDING
              => workflow.phases[p].started_at # None

(***************************************************************************)
(* Message bus (messaging.py 23-149).  The bus is B = [queues, history].   *)
(***************************************************************************)
TASK == "task"
RESULT == "result"
SenderIds == {"system"}
Timestamps == {1, 2}

\* filter_by arguments: none, one field, and the pair of fields with which
\* maestro.py 154-156 looks up the task of a result
HistoryFilters ==
    <<EmptyDict, [recipient |-> "maestro"],
      [message_id |-> 1, message_type |-> TASK]>>

\* Message(...): message_id defaults to a fresh uuid, timestamp to now
NewMessage(message_id, sender, recipient, parent_id) ==
    [message_id |-> message_id,
     message_type |-> IF parent_id = None THEN TASK ELSE RESULT,
     sender |-> sender, recipient |-> recipient, content |-> "c",
     timestamp |-> message_id, parent_id |-> parent_id]

register_agent(B, agent_id) ==
    IF agent_id \notin DOMAIN B.queues
      THEN [B EXCEPT !.queues = DictSet(@, agent_id, <<>>)]
      ELSE B

\* send_message that puts the message at the front of the history
send_message_front(B, message) ==
    LET B1 == register_agent(register_agent(B, message.sender),
                             message.recipient)
    IN [B1 EXCEPT !.queues[message.recipient] = Append(@, message),
                  !.history = <<message>> \o @]

send_message(B, message) ==
    LET B1 == register_agent(register_agent(B, message.sender),
                             message.recipient)
    IN [B1 EXCEPT !.queues[message.recipient] = Append(@, message),
                  !.history = Append(@, message)]

\* get_messages that returns the copy without emptying the mailbox
get_messages_keep(B, agent_id) ==
    LET B1 == register_agent(B, agent_id)
    IN [bus |-> B1, messages |-> B1.queues[agent_id]]

\* the bus after the call and the list it returns
get_messages(B, agent_id) ==
    LET B1 == register_agent(B, agent_id)
    IN [bus |-> [B1 EXCEPT !.queues[agent_id] = <<>>],
        messages |-> B1.queues[agent_id]]

peek_messages(B, agent_id) ==
    LET B1 == register_agent(B, agent_id)
    IN [bus |-> B1, messages |-> B1.queues[agent_id]]

\* get_history 98-116: the history, narrowed by each field/value pair of
\* filter_by in turn (getattr(msg, key) == value)
get_history(B, filter_by) ==
    IF DOMAIN filter_by = {}
      THEN B.history
      ELSE SelectSeq(B.history,
                     LAMBDA msg : \A key \in DOMAIN filter_by :
                                     msg[key] = filter_by[key])

\* next((m for m in self.history if m.message_id == message_id), None), as
\* the empty sequence or a sequence of one message
FindMessage(h, message_id) ==
    LET found == SelectSeq(h, LAMBDA m : m.message_id = message_id)
    IN IF found = <<>> THEN <<>> ELSE <<found[1]>>

\* the walk to the root that stays at the message it is given
RootOf_self(h, root_msg) == root_msg

\* get_conversation 129-134: parent_id links are followed while the parent
\* is in the history
RECURSIVE RootOf(_, _)
RootOf(h, root_msg) ==
    IF root_msg.parent_id = None
      THEN root_msg
      ELSE LET parent == FindMessage(h, root_msg.parent_id)
           IN IF parent = <<>> THEN root_msg ELSE RootOf(h, parent[1])

\* _add_children_to_thread 144-149: each child, in history order, is
\* appended and followed at once by its own descendants
RECURSIVE add_children_to_thread(_, _, _)
RECURSIVE AddEachChild(_, _, _)
add_children_to_thread(h, parent_id, thread_msgs) ==
    AddEachChild(h, SelectSeq(h, LAMBDA m : m.parent_id = parent_id),
                 thread_msgs)

AddEachChild(h, children, thread_msgs) ==
    IF children = <<>>
      THEN thread_msgs
      ELSE AddEachChild(h, Tail(children),
                        add_children_to_thread(h, Head(children).message_id,
                            Append(thread_msgs, Head(children))))

\* list.sort(key=lambda m: m.timestamp): a stable sort
RECURSIVE SortByTimestamp(_)
InsertByTimestamp(sorted, m) ==
    LET k == Cardinality({i \in 1..Len(sorted) :
                             sorted[i].timestamp <= m.timestamp})
    IN SubSeq(sorted, 1, k) \o <<m>> \o SubSeq(sorted, k + 1, Len(sorted))

SortByTimestamp(msgs) ==
    IF msgs = <<>>
      THEN <<>>
      ELSE InsertByTimestamp(SortByTimestamp(SubSeq(msgs, 1, Len(msgs) - 1)),
                             msgs[Len(msgs)])

\* get_conversation whose thread starts at the message asked for
get_conversation_from_message(B, message_id) ==
    LET msg == FindMessage(B.history, message_id)
    IN IF msg = <<>>
         THEN <<>>
         ELSE SortByTimestamp(
                  add_children_to_thread(B.history, msg[1].message_id,
                                         <<msg[1]>>))

get_conversation(B, message_id) ==
    LET msg == FindMessage(B.history, message_id)
    IN IF msg = <<>>
         THEN <<>>
         ELSE LET root_msg == RootOf(B.history, msg[1])
              IN SortByTimestamp(
                     add_children_to_thread(B.history, root_msg.message_id,
                                            <<root_msg>>))

Bus == [queues |-> queues, history |-> history]

Mailbox(agent_id) ==
    IF agent_id \in DOMAIN queues THEN queues[agent_id] ELSE <<>>

(***************************************************************************)
(* Specification of the bus called from a single thread.                   *)
(***************************************************************************)
BusCall(op, agent_id, B2) ==
    /\ queues' = B2.queues
    /\ history' = B2.history
    /\ bus_op' = [op |-> op, agent |-> agent_id]
    /\ UNCHANGED <<wfvars, ghostvars, threadvars, storevars>>

RegisterAgent ==
    \E agent_id \in AgentIds :
        /\ BusCall("register_agent", agent_id, register_agent(Bus, agent_id))
        /\ UNCHANGED <<sent, delivered, returned>>

\* send_message of a new message whose timestamp is one of timestamps.  A
\* message is made no earlier than the message it answers: its timestamp is
\* not below its parent's.
SendStamped(timestamps) ==
    \E sender \in SenderIds, recipient \in AgentIds, timestamp \in timestamps,
       parent_id \in {None} \cup {history[i].message_id : i \in 1..Len(history)} :
        LET message == [NewMessage(Len(sent) + 1, sender, recipient, parent_id)
                            EXCEPT !.timestamp = timestamp]
        IN /\ Len(sent) < MaxMsgs
           /\ \A i \in 1..Len(history) :
                  history[i].message_id = parent_id
                      => history[i].timestamp <= timestamp
           /\ BusCall("send_message", recipient, send_message(Bus, message))
           /\ sent' = Append(sent, message)
           /\ UNCHANGED <<delivered, returned>>

\* create_task, send_result, ... 155-258 on one thread: the message is made
\* and sent at once, so timestamps follow the order of the history
SendMessage == SendStamped({Len(sent) + 1})

GetMessages ==
    \E agent_id \in AgentIds :
        LET r == get_messages(Bus, agent_id)
        IN /\ BusCall("get_messages", agent_id, r.bus)
           /\ returned' = r.messages
           /\ delivered' = [delivered EXCEPT ![agent_id] = @ \o r.messages]
           /\ UNCHANGED sent

PeekMessages ==
    \E agent_id \in AgentIds :
        LET r == peek_messages(Bus, agent_id)
        IN /\ BusCall("peek_messages", agent_id, r.bus)
           /\ returned' = r.messages
           /\ UNCHANGED <<sent, delivered>>

GetHistory ==
    \E f \in DOMAIN HistoryFilters :
        /\ BusCall("get_history", "none", Bus)
        /\ returned' = get_history(Bus, HistoryFilters[f])
        /\ UNCHANGED <<sent, delivered>>

GetConversation ==
    \E message_id \in 1..MaxMsgs :
        /\ BusCall("get_conversation", "none", Bus)
        /\ returned' = get_conversation(Bus, message_id)
        /\ UNCHANGED <<sent, delivered>>

NextBus ==
    \/ RegisterAgent
    \/ SendMessage
    \/ GetMessages
    \/ PeekMessages
    \/ GetHistory
    \/ GetConversation

SpecBus == Init /\ [][NextBus]_vars

(***************************************************************************)
(* Specification of the conversation threads: the messages are made by     *)
(* several agents (Message(...) 23-33) and reach the history in any order  *)
(* that has a message after the one it answers, so messages of one thread  *)
(* can share a timestamp or lie in the history against their timestamps.   *)
(***************************************************************************)
SendAnswer == SendStamped(Timestamps)

NextThread ==
    \/ SendAnswer
    \/ GetConversation

SpecThread == Init /\ [][NextThread]_vars

(***************************************************************************)
(* Specification of conversation threads with dangling references: a       *)
(* message can also answer a message that never reached this history       *)
(* (Message(parent_id=...) takes any id).                                  *)
(***************************************************************************)
MissingId == MaxMsgs + 1

SendDangling ==
    \E sender \in SenderIds, recipient \in AgentIds, timestamp \in Timestamps :
        LET message == [NewMessage(Len(sent) + 1, sender, recipient, MissingId)
                            EXCEPT !.timestamp = timestamp]
        IN /\ Len(sent) < MaxMsgs
           /\ BusCall("send_message", recipient, send_message(Bus, message))
           /\ sent' = Append(sent, message)
           /\ UNCHANGED <<delivered, returned>>

NextDangling ==
    \/ SendAnswer
    \/ SendDangling
    \/ GetConversation

SpecDangling == Init /\ [][NextDangling]_vars

SentTo(r) == SelectSeq(sent, LAMBDA m : m.recipient = r)

\* C9: what receive(r) has returned so far, followed by what is in r's
\* mailbox, is exactly the messages sent to r, in send order and each once;
\* receive(r) leaves the mailbox empty, and a receive(r) right after a
\* receive(r) returns the empty list
C9_ReceiveDrainsInOrder ==
    /\ [](\A r \in AgentIds : delivered[r] \o Mailbox(r) = SentTo(r))
    /\ [](bus_op.op = "get_messages" => Mailbox(bus_op.agent) = <<>>)
    /\ [][(bus_op.op = "get_messages" /\ bus_op'.op = "get_messages"
              /\ bus_op'.agent = bus_op.agent) => returned' = <<>>]_vars

C9_Witness ==
    /\ bus_op = [op |-> "get_messages", agent |-> "maestro"]
    /\ Len(returned) = 2
    /\ delivered["maestro"] = returned
    /\ Len(SentTo("outline")) = 1

InHistory(m) == \E i \in 1..Len(history) : history[i] = m

IsPrefix(s, t) == Len(s) <= Len(t) /\ SubSeq(t, 1, Len(s)) = s

\* C12: every call on the bus (register, send, receive, peek, history,
\* conversation) leaves the history it found as a prefix of the history it
\* leaves; receive removes nothing from it
C12_HistoryAppendOnly ==
    [][IsPrefix(history, history')]_vars

C12_Witness ==
    /\ bus_op.op = "get_messages"
    /\ returned # <<>>
    /\ Len(history) >= 2
    /\ \A i \in 1..Len(returned) : InHistory(returned[i])

MessageIds(msgs) == {msgs[i].message_id : i \in 1..Len(msgs)}

\* C13: for every message of the history, the thread returned for its id
\* starts with the root, holds the root and each of its descendants exactly
\* once and nothing else, is sorted by timestamp, and is the list returned
\* for the id of every one of its members; so is the list a call returned
C13_ThreadOfAnyMember ==
    /\ \A x \in 1..Len(history) :
          LET thread == get_conversation(Bus, history[x].message_id)
              ids == MessageIds(thread)
          IN /\ history[x].message_id \in ids
             /\ thread[1].parent_id = None
             /\ Cardinality(ids) = Len(thread)
             /\ \A i \in 2..Len(thread) : thread[i].parent_id \in ids
             /\ \A i \in 1..Len(history) :
                   history[i].parent_id \in ids => history[i].message_id \in ids
             /\ \A i \in 1..Len(thread) : InHistory(thread[i])
             /\ \A i, j \in 1..Len(thread) :
                   i < j => thread[i].timestamp <= thread[j].timestamp
             /\ \A i \in 1..Len(thread) :
                   get_conversation(Bus, thread[i].message_id) = thread
    /\ (bus_op.op = "get_conversation" /\ returned # <<>>)
          => /\ returned[1].parent_id = None
             /\ \A i \in 1..Len(returned) :
                   get_conversation(Bus, returned[i].message_id) = returned

\* Task 1, Result 2 answering 1, Feedback 3 answering 2: [1, 2, 3]
C13_Witness ==
    /\ bus_op.op = "get_conversation"
    /\ Len(returned) = 3
    /\ \A i \in 1..3 : returned[i].message_id = i
    /\ returned[2].parent_id = 1
    /\ returned[3].parent_id = 2
    /\ get_conversation(Bus, 3) = returned

\* a list of messages is one thread of the history: one root, whose parent
\* is none or not in the history, then answers to members only, each member
\* once, with every answer to a member that the history holds
IsThread(thread) ==
    LET ids == MessageIds(thread)
    IN /\ thread # <<>>
       /\ \A i \in 1..Len(thread) : InHistory(thread[i])
       /\ Cardinality(ids) = Len(thread)
       /\ \E r \in 1..Len(thread) :
             /\ thread[r].parent_id \notin MessageIds(history)
             /\ \A i \in 1..Len(thread) :
                   i # r => thread[i].parent_id \in ids
       /\ \A i \in 1..Len(history) :
             history[i].parent_id \in ids => history[i].message_id \in ids

\* C25: get_conversation of a message whose chain of parents ends at an id
\* that is not in the history returns the thread of the last message of the
\* chain that is in the history, the requested message and the root's
\* descendants included; for an id not in the history it returns the empty
\* list; the call leaves mailboxes and history as they were
C25_DanglingParentIsRoot ==
    /\ [](\A message_id \in 1..MissingId :
             LET thread == get_conversation(Bus, message_id)
             IN IF message_id \in MessageIds(history)
                  THEN IsThread(thread) /\ message_id \in MessageIds(thread)
                  ELSE thread = <<>>)
    /\ [](bus_op.op = "get_conversation" =>
             returned = <<>> \/ IsThread(returned))
    /\ [][bus_op'.op = "get_conversation"
             => UNCHANGED <<queues, history>>]_vars

C25_Witness ==
    /\ bus_op.op = "get_conversation"
    /\ Len(returned) = 2
    /\ Len(history) = 3
    /\ \E i \in 1..2 :
          /\ returned[i].parent_id = MissingId
          /\ returned[3 - i].parent_id = returned[i].message_id
    /\ get_conversation(Bus, MissingId) = <<>>

(***************************************************************************)
(* Specification of two threads on the bus (inkharmony.py 81-90): the      *)
(* caller's thread runs send_message and the agent thread of "maestro"     *)
(* runs get_messages in its polling loop.  Neither method takes a lock, so *)
(* the threads interleave between the statements of the two methods.       *)
(***************************************************************************)
Receiver == "maestro"

\* the agents register in their constructors, before the threads start
RaceInit ==
    /\ WorkflowInit
    /\ queues = [a \in AgentIds |-> <<>>]
    /\ history = <<>>
    /\ sent = <<>>
    /\ delivered = [a \in AgentIds |-> <<>>]
    /\ returned = <<>>
    /\ bus_op = [op |-> "init", agent |-> "none"]
    /\ ThreadsIdle
    /\ StoreInit

Sending == sent[Len(sent)]

\* send_message 75-76: a message is made and the two mailboxes are ensured
SendRegister ==
    /\ spc = "idle"
    /\ Len(sent) < MaxMsgs
    /\ \E recipient \in AgentIds :
          LET message == NewMessage(Len(sent) + 1, "system", recipient, None)
          IN /\ sent' = Append(sent, message)
             /\ queues' = register_agent(register_agent(Bus, message.sender),
                                         message.recipient).queues
    /\ spc' = "load"
    /\ UNCHANGED <<history, delivered, returned, bus_op, sref, rpc, messages,
                   wfvars, ghostvars, storevars>>

\* send_message 79, self.queues[message.recipient]: the list is looked up
SendLoad ==
    /\ spc = "load"
    /\ sref' = "live"
    /\ spc' = "append"
    /\ UNCHANGED <<busvars, rpc, messages, wfvars, ghostvars, storevars>>

\* send_message 79, .append(message): the message goes to the list that was
\* looked up, which is the mailbox only if the mailbox was not replaced since
SendAppend ==
    /\ spc = "append"
    /\ queues' = IF sref = "live"
                   THEN [queues EXCEPT ![Sending.recipient] = Append(@, Sending)]
                   ELSE queues
    /\ sref' = "none"
    /\ spc' = "history"
    /\ UNCHANGED <<history, sent, delivered, returned, bus_op, rpc, messages,
                   wfvars, ghostvars, storevars>>

\* send_message 82-84
SendHistory ==
    /\ spc = "history"
    /\ history' = Append(history, Sending)
    /\ bus_op' = [op |-> "send_message", agent |-> Sending.recipient]
    /\ spc' = "idle"
    /\ UNCHANGED <<queues, sent, delivered, returned, sref, rpc, messages,
                   wfvars, ghostvars, storevars>>

\* get_messages 88-89: messages = self.queues[agent_id].copy()
ReceiveCopy ==
    /\ rpc = "idle"
    /\ messages' = register_agent(Bus, Receiver).queues[Receiver]
    /\ rpc' = "reset"
    /\ UNCHANGED <<busvars, spc, sref, wfvars, ghostvars, storevars>>

\* get_messages 90: self.queues[agent_id] = []
ReceiveReset ==
    /\ rpc = "reset"
    /\ queues' = [queues EXCEPT ![Receiver] = <<>>]
    /\ sref' = IF sref = "live" /\ Sending.recipient = Receiver
                 THEN "stale" ELSE sref
    /\ rpc' = "return"
    /\ UNCHANGED <<history, sent, delivered, returned, bus_op, spc, messages,
                   wfvars, ghostvars, storevars>>

\* get_messages 91: return messages; run() then iterates over the batch
ReceiveReturn ==
    /\ rpc = "return"
    /\ returned' = messages
    /\ delivered' = [delivered EXCEPT ![Receiver] = @ \o messages]
    /\ bus_op' = [op |-> "get_messages", agent |-> Receiver]
    /\ rpc' = IF messages = <<>> THEN "idle" ELSE "process"
    /\ UNCHANGED <<queues, history, sent, spc, sref, messages, wfvars,
                   ghostvars, storevars>>

\* the reply _process_message sends for a message: a Result or an Error to
\* its sender, with parent_id the message's id (maestro.py 116-144)
Reply(message) ==
    NewMessage(message.message_id + MaxMsgs, Receiver, message.sender,
               message.message_id)

\* run() 67-68: the next message of the batch is handled and answered.  The
\* reply's send_message is one step: no thread drains the mailbox of
\* "system", and list.append on the history is a single operation.
ReceiveProcess ==
    /\ rpc = "process"
    /\ LET B2 == send_message(Bus, Reply(Head(messages)))
       IN /\ queues' = B2.queues
          /\ history' = B2.history
    /\ messages' = Tail(messages)
    /\ rpc' = IF Tail(messages) = <<>> THEN "idle" ELSE "process"
    /\ UNCHANGED <<sent, delivered, returned, bus_op, spc, sref, wfvars,
                   ghostvars, storevars>>

NextRace ==
    \/ SendRegister
    \/ SendLoad
    \/ SendAppend
    \/ SendHistory
    \/ ReceiveCopy
    \/ ReceiveReset
    \/ ReceiveReturn
    \/ ReceiveProcess

SpecRace == RaceInit /\ [][NextRace]_vars

Occurrences(seq, m) == Cardinality({i \in 1..Len(seq) : seq[i] = m})

\* the batch a get_messages in progress has taken out of the mailbox
InFlight == IF rpc = "return" THEN messages ELSE <<>>

\* C10: every message sent to r (its send_message has returned) is returned
\* by exactly one receive(r): it is in the mailbox or in exactly one batch
C10_AtomicDrain ==
    \A i \in 1..Len(history) :
        history[i].recipient = Receiver =>
            Occurrences(delivered[Receiver] \o InFlight, history[i])
                + Occurrences(queues[Receiver], history[i]) = 1

\* C11: a message a thread has taken from a mailbox is in the history, and
\* a reply comes later in the history than the message it answers
C11_SendIsAtomic ==
    /\ \A i \in 1..Len(delivered[Receiver]) : InHistory(delivered[Receiver][i])
    /\ \A i \in 1..Len(history) :
          history[i].parent_id # None =>
              \E j \in 1..(i - 1) :
                  history[j].message_id = history[i].parent_id

(***************************************************************************)
(* The clock and the labels made from it.  datetime.now() is read in ticks *)
(* of which TicksPerSecond make one second; strftime("%Y%m%d_%H%M%S")      *)
(* keeps the second and drops the rest.                                    *)
(***************************************************************************)
MaxTicks == 3
TicksPerSecond == 2

TimestampLabels ==
    <<"20240101_000000", "20240101_000001", "20240101_000002",
      "20240101_000003">>

strftime(t) == TimestampLabels[(t \div TicksPerSecond) + 1]

Tick ==
    /\ now < MaxTicks
    /\ now' = now + 1
    /\ UNCHANGED <<wfvars, ghostvars, busvars, threadvars, mgrvars, compvars,
                   fsvars, agentvars, callvars>>

(***************************************************************************)
(* WorkflowManager (workflow.py 300-459).  The manager is                  *)
(* M = [active_workflows, disk]; a book's directory holds state.pickle and *)
(* metadata.json, each <<>> while the file does not exist.                 *)
(***************************************************************************)
\* create_new_book_id (storage.py 267-275): f"book_{timestamp}"
create_new_book_id(t) == <<"book", strftime(t)>>

\* an id that names no book
NoSuchBook == <<"book", "none">>

EmptyBookDir == [state_file |-> <<>>, metadata_file |-> <<>>]

\* BookStorage(book_id): the book's directories are made if missing
BookStorage(D, book_id) ==
    IF book_id \in DOMAIN D THEN D ELSE DictSet(D, book_id, EmptyBookDir)

\* the world of a cached workflow: the object and the files of its directory
WorldOf(M, book_id) ==
    [wf |-> M.active_workflows[book_id],
     state_file |-> M.disk[book_id].state_file,
     metadata_file |-> M.disk[book_id].metadata_file]

StoreWorld(M, book_id, W) ==
    [active_workflows |-> DictSet(M.active_workflows, book_id, W.wf),
     disk |-> DictSet(M.disk, book_id,
                      [state_file |-> W.state_file,
                       metadata_file |-> W.metadata_file])]

\* WorkflowManager.create_workflow 307-326: BookWorkflow() takes its id from
\* the clock and makes its directories, save_state writes the two files,
\* the workflow is cached under its id
manager_create_workflow(M, metadata, t) ==
    LET book_id == create_new_book_id(t)
        M1 == [M EXCEPT !.disk = BookStorage(@, book_id)]
    IN [mgr |-> StoreWorld(M1, book_id, create_workflow(metadata)),
        book_id |-> book_id]

\* BookWorkflow.load 278-297: the snapshot of the book, <<>> for None
load(D, book_id) ==
    LET D1 == BookStorage(D, book_id)
    IN [disk |-> D1, workflow |-> D1[book_id].state_file]

\* get_workflow that does not keep what it loaded
get_workflow_uncached(M, book_id) ==
    IF book_id \in DOMAIN M.active_workflows
      THEN [mgr |-> M, workflow |-> <<M.active_workflows[book_id]>>]
      ELSE LET r == load(M.disk, book_id)
           IN [mgr |-> [M EXCEPT !.disk = r.disk], workflow |-> r.workflow]

\* get_workflow 328-347
get_workflow(M, book_id) ==
    IF book_id \in DOMAIN M.active_workflows
      THEN [mgr |-> M, workflow |-> <<M.active_workflows[book_id]>>]
      ELSE LET r == load(M.disk, book_id)
               M1 == [M EXCEPT !.disk = r.disk]
           IN [mgr |-> IF r.workflow # <<>>
                         THEN [M1 EXCEPT !.active_workflows =
                                   DictSet(@, book_id, r.workflow[1])]
                         ELSE M1,
               workflow |-> r.workflow]

\* start_workflow 349-364
start_workflow(M, book_id, t) ==
    LET r == get_workflow(M, book_id)
    IN IF r.workflow = <<>>
         THEN [mgr |-> r.mgr, ok |-> FALSE]
         ELSE [mgr |-> StoreWorld(r.mgr, book_id,
                                  start(WorldOf(r.mgr, book_id), t)),
               ok |-> TRUE]

\* pause_workflow that reports success without pausing the workflow
pause_workflow_skipped(M, book_id) ==
    LET r == get_workflow(M, book_id)
    IN IF r.workflow = <<>>
         THEN [mgr |-> r.mgr, ok |-> FALSE]
         ELSE [mgr |-> r.mgr, ok |-> TRUE]

\* pause_workflow 366-381
pause_workflow(M, book_id) ==
    LET r == get_workflow(M, book_id)
    IN IF r.workflow = <<>>
         THEN [mgr |-> r.mgr, ok |-> FALSE]
         ELSE [mgr |-> StoreWorld(r.mgr, book_id,
                                  pause(WorldOf(r.mgr, book_id))),
               ok |-> TRUE]

\* resume_workflow 383-398
resume_workflow(M, book_id) ==
    LET r == get_workflow(M, book_id)
    IN IF r.workflow = <<>>
         THEN [mgr |-> r.mgr, ok |-> FALSE]
         ELSE [mgr |-> StoreWorld(r.mgr, book_id,
                                  resume(WorldOf(r.mgr, book_id))),
               ok |-> TRUE]

\* the duration property of Phase and BookWorkflow (workflow.py 81-87,
\* 255-261): <<>> for None
duration(x, t) ==
    IF x.started_at = None
      THEN <<>>
      ELSE <<(IF x.completed_at # None THEN x.completed_at ELSE t)
                 - x.started_at>>

\* BookWorkflow.get_status 227-253
get_status(wf, book_id, t) ==
    [book_id |-> book_id, status |-> wf.status,
     current_phase |-> wf.current_phase, started_at |-> wf.started_at,
     completed_at |-> wf.completed_at, duration |-> duration(wf, t),
     phases |-> [p \in PhaseNames |->
                    [status |-> wf.phases[p].status,
                     duration |-> duration(wf.phases[p], t),
                     task_count |-> Cardinality(DOMAIN wf.phases[p].tasks),
                     result_count |-> Cardinality(DOMAIN wf.phases[p].results),
                     error_count |-> Len(wf.phases[p].errors)]],
     metadata |-> wf.metadata]

\* get_workflow_status 436-450: <<>> for None
get_workflow_status(M, book_id, t) ==
    LET r == get_workflow(M, book_id)
    IN [mgr |-> r.mgr,
        status |-> IF r.workflow = <<>>
                     THEN <<>>
                     ELSE <<get_status(r.workflow[1], book_id, t)>>]

\* WorkflowManager.complete_phase 400-415
manager_complete_phase(M, book_id, t) ==
    LET r == get_workflow(M, book_id)
    IN IF r.workflow = <<>>
         THEN [mgr |-> r.mgr, ok |-> FALSE]
         ELSE [mgr |-> StoreWorld(r.mgr, book_id,
                                  complete_phase(WorldOf(r.mgr, book_id), t)),
               ok |-> TRUE]

\* add_task_result 417-434
add_task_result(M, book_id, task_id, result) ==
    LET r == get_workflow(M, book_id)
    IN IF r.workflow = <<>>
         THEN [mgr |-> r.mgr, ok |-> FALSE]
         ELSE [mgr |-> StoreWorld(r.mgr, book_id,
                                  add_result(WorldOf(r.mgr, book_id),
                                             task_id, result)),
               ok |-> TRUE]

Manager == [active_workflows |-> active_workflows, disk |-> disk]

(***************************************************************************)
(* Specification of the manager: books are created and driven through the  *)
(* manager, the clock ticks, and the process restarts with an empty cache. *)
(***************************************************************************)
MgrCall(op, book_id, M2, result) ==
    /\ mcalls < MaxCalls
    /\ active_workflows' = M2.active_workflows
    /\ disk' = M2.disk
    /\ mgr_op' = [op |-> op, book_id |-> book_id, result |-> result,
                  loaded |-> book_id \notin DOMAIN active_workflows]
    /\ mcalls' = mcalls + 1
    /\ UNCHANGED <<wfvars, ghostvars, busvars, threadvars, compvars, now,
                   fsvars, agentvars, callvars>>

\* a call that has mutated the workflow of book_id has returned
Mutated(book_id, M2, ok) ==
    last_saved' = IF ok
                    THEN DictSet(last_saved, book_id,
                                 M2.active_workflows[book_id])
                    ELSE last_saved

\* the ids a caller passes: those create_workflow has returned and one more
KnownBookIds == {created[i] : i \in 1..Len(created)} \cup {NoSuchBook}

CreateWorkflow ==
    LET r == manager_create_workflow(Manager, BookMetadata, now)
    IN /\ MgrCall("create_workflow", r.book_id, r.mgr, <<r.book_id>>)
       /\ created' = Append(created, r.book_id)
       /\ Mutated(r.book_id, r.mgr, TRUE)

GetWorkflow ==
    \E book_id \in KnownBookIds :
        LET r == get_workflow(Manager, book_id)
        IN /\ MgrCall("get_workflow", book_id, r.mgr, r.workflow)
           /\ UNCHANGED <<created, last_saved>>

StartWorkflow ==
    \E book_id \in KnownBookIds :
        LET r == start_workflow(Manager, book_id, now)
        IN /\ MgrCall("start_workflow", book_id, r.mgr, <<r.ok>>)
           /\ Mutated(book_id, r.mgr, r.ok)
           /\ UNCHANGED created

PauseWorkflow ==
    \E book_id \in KnownBookIds :
        LET r == pause_workflow(Manager, book_id)
        IN /\ MgrCall("pause_workflow", book_id, r.mgr, <<r.ok>>)
           /\ Mutated(book_id, r.mgr, r.ok)
           /\ UNCHANGED created

ResumeWorkflow ==
    \E book_id \in KnownBookIds :
        LET r == resume_workflow(Manager, book_id)
        IN /\ MgrCall("resume_workflow", book_id, r.mgr, <<r.ok>>)
           /\ Mutated(book_id, r.mgr, r.ok)
           /\ UNCHANGED created

GetWorkflowStatus ==
    \E book_id \in KnownBookIds :
        LET r == get_workflow_status(Manager, book_id, now)
        IN /\ MgrCall("get_workflow_status", book_id, r.mgr, r.status)
           /\ UNCHANGED <<created, last_saved>>

ManagerCompletePhase ==
    \E book_id \in KnownBookIds :
        LET r == manager_complete_phase(Manager, book_id, now)
        IN /\ MgrCall("complete_phase", book_id, r.mgr, <<r.ok>>)
           /\ Mutated(book_id, r.mgr, r.ok)
           /\ UNCHANGED created

AddTaskResult ==
    \E book_id \in KnownBookIds, task_id \in TaskIds :
        LET r == add_task_result(Manager, book_id, task_id, "a")
        IN /\ MgrCall("add_task_result", book_id, r.mgr, <<r.ok>>)
           /\ Mutated(book_id, r.mgr, r.ok)
           /\ UNCHANGED created

\* the process ends and a new WorkflowManager() starts over the same files
Restart ==
    /\ MgrCall("restart", NoSuchBook,
               [Manager EXCEPT !.active_workflows = EmptyDict], <<>>)
    /\ UNCHANGED <<created, last_saved>>

NextManager ==
    \/ CreateWorkflow
    \/ GetWorkflow
    \/ StartWorkflow
    \/ PauseWorkflow
    \/ ResumeWorkflow
    \/ ManagerCompletePhase
    \/ GetWorkflowStatus
    \/ AddTaskResult
    \/ Restart
    \/ Tick

SpecManager == Init /\ [][NextManager]_vars

\* C15: get_workflow(book_id) returns the workflow as it was in memory when
\* the last mutating call on the book returned, and leaves it in the cache,
\* also when the cache was emptied in between; for an id with no persisted
\* state it returns None and caches nothing; every cached workflow, loaded or
\* not, writes to the files of its book
C15_GetAfterRestart ==
    /\ mgr_op.op = "get_workflow" =>
          IF mgr_op.book_id \in DOMAIN last_saved
            THEN /\ mgr_op.result = <<last_saved[mgr_op.book_id]>>
                 /\ mgr_op.book_id \in DOMAIN active_workflows
                 /\ active_workflows[mgr_op.book_id] =
                        last_saved[mgr_op.book_id]
            ELSE /\ mgr_op.result = <<>>
                 /\ mgr_op.book_id \notin DOMAIN active_workflows
    /\ \A b \in DOMAIN active_workflows :
          /\ b \in DOMAIN disk
          /\ disk[b].state_file = <<active_workflows[b]>>
          /\ disk[b].metadata_file = <<MetadataProjection(active_workflows[b])>>

C15_Witness ==
    /\ mgr_op.op = "get_workflow"
    /\ mgr_op.loaded
    /\ mgr_op.result # <<>>
    /\ mgr_op.result[1].status = RUNNING
    /\ mgr_op.result[1].current_phase = 2
    /\ mgr_op.book_id \in DOMAIN active_workflows

\* C16: no two create_workflow calls return the same book id, so the id a
\* create_workflow call returns was not in the cache and had no persisted
\* state or metadata before the call
C16_BookIdsUnique ==
    /\ [](\A i, j \in 1..Len(created) : i # j => created[i] # created[j])
    /\ [][mgr_op'.op = "create_workflow" /\ mcalls' # mcalls
              => /\ mgr_op'.book_id \notin DOMAIN active_workflows
                 /\ mgr_op'.book_id \in DOMAIN disk
                        => disk[mgr_op'.book_id] = EmptyBookDir]_vars

\* a book id resolves to a workflow: cached, or with a persisted snapshot
Resolves(book_id) ==
    \/ book_id \in DOMAIN active_workflows
    \/ book_id \in DOMAIN disk /\ disk[book_id].state_file # <<>>

\* the world of the workflow a book id resolves to
ResolvedWorld(book_id) ==
    [wf |-> IF book_id \in DOMAIN active_workflows
              THEN active_workflows[book_id]
              ELSE disk[book_id].state_file[1],
     state_file |-> disk[book_id].state_file,
     metadata_file |-> disk[book_id].metadata_file]

\* the BookWorkflow transition that corresponds to a manager operation
TransitionOf(op, W, t) ==
    CASE op = "start_workflow" -> {start(W, t)}
      [] op = "pause_workflow" -> {pause(W)}
      [] op = "resume_workflow" -> {resume(W)}
      [] op = "complete_phase" -> {complete_phase(W, t)}
      [] op = "add_task_result" ->
             {add_result(W, task_id, "a") : task_id \in TaskIds}

\* C23: start_workflow, pause_workflow, resume_workflow, complete_phase and
\* add_task_result return False and leave the cache as it was when the book
\* id resolves to no workflow, and otherwise return True with the book's
\* workflow and files as its BookWorkflow transition leaves them and every
\* other cached workflow as it was; get_workflow_status returns None when
\* the id does not resolve
C23_ManagerOperations ==
    /\ [][(/\ mcalls' # mcalls
           /\ mgr_op'.op \in {"start_workflow", "pause_workflow",
                              "resume_workflow", "complete_phase",
                              "add_task_result"})
             => LET b == mgr_op'.book_id
                IN IF Resolves(b)
                     THEN /\ mgr_op'.result = <<TRUE>>
                          /\ \E W \in TransitionOf(mgr_op'.op,
                                                   ResolvedWorld(b), now) :
                                /\ active_workflows'[b] = W.wf
                                /\ disk'[b].state_file = W.state_file
                                /\ disk'[b].metadata_file = W.metadata_file
                          /\ \A c \in DOMAIN active_workflows \ {b} :
                                active_workflows'[c] = active_workflows[c]
                     ELSE /\ mgr_op'.result = <<FALSE>>
                          /\ active_workflows' = active_workflows]_vars
    /\ [][(/\ mcalls' # mcalls
           /\ mgr_op'.op = "get_workflow_status"
           /\ ~Resolves(mgr_op'.book_id))
             => /\ mgr_op'.result = <<>>
                /\ active_workflows' = active_workflows]_vars

C23_Witness ==
    /\ mgr_op.op = "pause_workflow"
    /\ mgr_op.result = <<TRUE>>
    /\ mgr_op.loaded
    /\ active_workflows[mgr_op.book_id].status = PAUSED
    /\ active_workflows[mgr_op.book_id].current_phase = 1
    /\ NoSuchBook \in DOMAIN disk
    /\ NoSuchBook \notin DOMAIN active_workflows

(***************************************************************************)
(* Components of one book (storage.py 65-147).  A component's directory    *)
(* maps a label to the text of <label>.txt; current.txt is under the label *)
(* "current".  A text is a sequence of characters.                         *)
(***************************************************************************)
MaxSaves == 2
CR == "CR"
LF == "LF"

\* os.linesep of the platform the program is run on (POSIX)
os_linesep == <<LF>>

\* f.write(content) on a file opened with open(path, 'w', encoding='utf-8'):
\* each "\n" is written as os.linesep
RECURSIVE WriteText(_)
WriteText(content) ==
    IF content = <<>>
      THEN <<>>
      ELSE (IF Head(content) = LF THEN os_linesep ELSE <<Head(content)>>)
               \o WriteText(Tail(content))

\* f.read() on a file opened with open(path, 'r', encoding='utf-8'):
\* universal newlines, "\r\n" and "\r" are read as "\n"
RECURSIVE ReadText(_)
ReadText(text) ==
    IF text = <<>>
      THEN <<>>
      ELSE IF Head(text) = CR
        THEN <<LF>> \o ReadText(IF Len(text) >= 2 /\ text[2] = LF
                                  THEN SubSeq(text, 3, Len(text))
                                  ELSE Tail(text))
        ELSE <<Head(text)>> \o ReadText(Tail(text))

ComponentNames == {"chapter_1"}
UnsavedName == "outline"
Labels == {"draft", "current"}
Contents == {<<"v", "1">>, <<"v", "2">>, <<"a", CR, LF, "b">>}

\* the labels of the model in the order sorted() gives them
LabelOrder == TimestampLabels \o <<"current", "draft">>

\* save_component 65-96; version is <<>> for None and <<label>> otherwise
save_component(C, component_name, content, version, t) ==
    LET label == IF version = <<>> THEN strftime(t) ELSE version[1]
        component_dir == IF component_name \in DOMAIN C
                           THEN C[component_name] ELSE EmptyDict
        saved == DictSet(DictSet(component_dir, "current", WriteText(content)),
                         label, WriteText(content))
    IN [components |-> DictSet(C, component_name, saved), label |-> label]

\* load_component 98-116: <<>> for None
load_component(C, component_name, version) ==
    IF component_name \notin DOMAIN C THEN <<>>
    ELSE IF version \notin DOMAIN C[component_name] THEN <<>>
    ELSE <<ReadText(C[component_name][version])>>

\* list_component_versions 131-147 (no label of the model holds ".txt")
list_component_versions(C, component_name) ==
    IF component_name \notin DOMAIN C THEN <<>>
    ELSE SelectSeq(LabelOrder,
                   LAMBDA l : l \in DOMAIN C[component_name] /\ l # "current")

(***************************************************************************)
(* Specification of the component store of one book.                       *)
(***************************************************************************)
StorageCall(op, name, version, result) ==
    /\ st_op' = [op |-> op, name |-> name, version |-> version,
                 result |-> result]
    /\ UNCHANGED <<wfvars, ghostvars, busvars, threadvars, mgrvars, now,
                   fsvars, agentvars, callvars>>

SaveComponent ==
    \E component_name \in ComponentNames, content \in Contents,
       version \in {<<>>} \cup {<<l>> : l \in Labels} :
        LET r == save_component(components, component_name, content, version,
                                now)
        IN /\ Len(saves) < MaxSaves
           /\ components' = r.components
           /\ saves' = Append(saves, [name |-> component_name,
                                      version |-> version,
                                      content |-> content, label |-> r.label])
           /\ StorageCall("save_component", component_name, r.label, <<>>)

LoadComponent ==
    \E component_name \in ComponentNames \cup {UnsavedName},
       version \in {LabelOrder[i] : i \in DOMAIN LabelOrder} :
        /\ StorageCall("load_component", component_name, version,
                       load_component(components, component_name, version))
        /\ UNCHANGED <<components, saves>>

ListComponentVersions ==
    \E component_name \in ComponentNames \cup {UnsavedName} :
        /\ StorageCall("list_component_versions", component_name, "none",
                       list_component_versions(components, component_name))
        /\ UNCHANGED <<components, saves>>

NextStorage ==
    \/ SaveComponent
    \/ LoadComponent
    \/ ListComponentVersions
    \/ Tick

SpecStorage == Init /\ [][NextStorage]_vars

\* the saves of a component, and those made with a version argument
SavesOf(name) == SelectSeq(saves, LAMBDA sv : sv.name = name)
SavesWith(name, version) ==
    SelectSeq(saves, LAMBDA sv : sv.name = name /\ sv.version = version)

Last(seq) == seq[Len(seq)]

\* C17: load_component(name) returns the content of the latest
\* save_component on the name, whatever labels the saves had, and None for a
\* name never saved
C17_CurrentIsLatestSave ==
    (st_op.op = "load_component" /\ st_op.version = "current")
        => st_op.result = IF SavesOf(st_op.name) = <<>>
                            THEN <<>>
                            ELSE <<Last(SavesOf(st_op.name)).content>>

\* C18: load_component(name, version=L) returns the content of the latest
\* save made with label L, whatever was saved since under other labels or
\* under none, and list_component_versions holds L once
C18_LabelledVersionKept ==
    /\ (st_op.op = "load_component"
          /\ SavesWith(st_op.name, <<st_op.version>>) # <<>>)
          => st_op.result =
               <<Last(SavesWith(st_op.name, <<st_op.version>>)).content>>
    /\ st_op.op = "list_component_versions" =>
          \A l \in Labels \ {"current"} :
              SavesWith(st_op.name, <<l>>) # <<>> =>
                  Cardinality({i \in 1..Len(st_op.result) :
                                  st_op.result[i] = l}) = 1

\* C19: save_component calls without a label on one component get different
\* labels: after "v1" and then "v2" are saved to chapter_1,
\* list_component_versions returns two labels, the first loads "v1" and
\* load_component returns "v2"
C19_TimestampLabelsDistinct ==
    /\ \A i, j \in 1..Len(saves) :
          (i < j /\ saves[i].name = saves[j].name
             /\ saves[i].version = <<>> /\ saves[j].version = <<>>)
              => saves[i].label # saves[j].label
    /\ (/\ Len(saves) = 2
        /\ \A i \in 1..2 : saves[i].version = <<>>
        /\ saves[1].content = <<"v", "1">>
        /\ saves[2].content = <<"v", "2">>)
          => LET versions == list_component_versions(components, "chapter_1")
             IN /\ Len(versions) = 2
                /\ load_component(components, "chapter_1", versions[1])
                       = <<saves[1].content>>
                /\ load_component(components, "chapter_1", "current")
                       = <<saves[2].content>>


(***************************************************************************)
(* The book directories under BOOK_STORAGE_DIR (src/core/storage.py).  A   *)
(* file is named by its path, the sequence of the segments os.path.join    *)
(* puts together; fs maps each existing file to what was written to it.    *)
(***************************************************************************)
MaxWrites == 2

\* the book ids create_new_book_id gives at two different seconds
BookA == create_new_book_id(0)
BookB == create_new_book_id(TicksPerSecond)
StoredBooks == {BookA, BookB}

\* one directory for the books of every handle
book_dir_shared(book_id) == <<BookA>>

\* __init__ 31: self.book_dir = os.path.join(BOOK_STORAGE_DIR, book_id)
book_dir(book_id) == <<book_id>>

\* __init__ 32, 34-36
components_dir(book_id) == book_dir(book_id) \o <<"components">>
images_dir(book_id) == book_dir(book_id) \o <<"images">>
metadata_file_path(book_id) == book_dir(book_id) \o <<"metadata.json">>
state_file_path(book_id) == book_dir(book_id) \o <<"state.pickle">>

\* the files of fs below a directory
FilesUnder(F, dir) ==
    {path \in DOMAIN F : Len(path) >= Len(dir) /\ SubSeq(path, 1, Len(dir)) = dir}

\* what a handle of book_id can read back: the files of its book directory
BookFiles(F, book_id) ==
    [path \in FilesUnder(F, book_dir(book_id)) |-> F[path]]

\* save_metadata 42-50: json.dump into metadata.json
storage_save_metadata(F, book_id, metadata) ==
    DictSet(F, metadata_file_path(book_id), metadata)

\* save_component 65-96 on the files: current.txt and <label>.txt of the
\* component's directory are written
storage_save_component(F, book_id, component_name, content, version, t) ==
    LET label == IF version = <<>> THEN strftime(t) ELSE version[1]
        component_dir == components_dir(book_id) \o <<component_name>>
    IN DictSet(DictSet(F, component_dir \o <<<<"current", ".txt">>>>,
                       WriteText(content)),
               component_dir \o <<<<label, ".txt">>>>, WriteText(content))

\* save_image 162-164: the extension gets its leading dot
ImageExtensions == {"png", ".png", "jpg"}
format_extension_of(format_extension) ==
    CASE format_extension = "png" -> ".png"
      [] format_extension = "jpg" -> ".jpg"
      [] OTHER -> format_extension

\* save_image 149-176: the bytes are written as they are
storage_save_image(F, book_id, image_name, image_data, format_extension) ==
    DictSet(F, images_dir(book_id)
                 \o <<<<image_name, format_extension_of(format_extension)>>>>,
            image_data)

\* save_state 201-209: pickle.dump into state.pickle
storage_save_state(F, book_id, state) ==
    DictSet(F, state_file_path(book_id), state)

ImageNames == {"cover"}
ImageData == {"png1", "png2"}
Metadatas == {BookMetadata, [k \in {"title"} |-> "u"]}
States == {"state1", "state2"}

FilesCall(op, book_id, F) ==
    /\ fs_op.n < MaxWrites
    /\ fs' = F
    /\ fs_op' = [op |-> op, book_id |-> book_id, n |-> fs_op.n + 1]
    /\ UNCHANGED <<wfvars, ghostvars, busvars, threadvars, mgrvars, compvars,
                   now, agentvars, callvars>>

FilesSaveMetadata ==
    \E book_id \in StoredBooks, metadata \in Metadatas :
        FilesCall("save_metadata", book_id,
                  storage_save_metadata(fs, book_id, metadata))

FilesSaveComponent ==
    \E book_id \in StoredBooks, component_name \in ComponentNames,
       content \in Contents, version \in {<<>>, <<"draft">>} :
        FilesCall("save_component", book_id,
                  storage_save_component(fs, book_id, component_name, content,
                                         version, now))

FilesSaveImage ==
    \E book_id \in StoredBooks, image_name \in ImageNames,
       image_data \in ImageData, format_extension \in ImageExtensions :
        FilesCall("save_image", book_id,
                  storage_save_image(fs, book_id, image_name, image_data,
                                     format_extension))

FilesSaveState ==
    \E book_id \in StoredBooks, state \in States :
        FilesCall("save_state", book_id,
                  storage_save_state(fs, book_id, state))

NextFiles ==
    \/ FilesSaveMetadata
    \/ FilesSaveComponent
    \/ FilesSaveImage
    \/ FilesSaveState
    \/ Tick

SpecFiles == Init /\ [][NextFiles]_vars

ERROR == "error"
MessageTypes == {TASK, RESULT, "feedback", "query", "response", "status", ERROR}

\* the branches of _process_message: maestro.py 91-98, outline.py 71-76
HandledTypes(agent) ==
    IF agent = "maestro" THEN {TASK, RESULT, ERROR, "query"}
                         ELSE {TASK, "feedback", ERROR}

\* the types that are posted: one for each set of agents with a branch for
\* it (both, maestro only, outline only, none)
PostedTypes == {TASK, RESULT, "feedback", "status"}

HandlerOutcomes == {"returns", "raises"}

\* send_error (messaging.py 235-258) as the except branch calls it
ErrorFor(agent, message) ==
    [message_id |-> message.message_id + MaxMsgs, message_type |-> ERROR,
     sender |-> agent, recipient |-> message.sender, content |-> "error",
     timestamp |-> message.message_id + MaxMsgs,
     parent_id |-> message.message_id]

\* _process_message without its try: what the handler raises leaves the call
process_message_unguarded(B, agent, message, outcome) ==
    LET raised == message.message_type \in HandledTypes(agent)
                    /\ outcome = "raises"
    IN [bus |-> B, raised |-> raised, escaped |-> raised]

\* _process_message, maestro.py 80-107 and outline.py 80-101: the handler of
\* the message's type is called inside try; except Exception sends an Error
\* to the sender (send_message raises nothing) and the call returns
process_message(B, agent, message, outcome) ==
    LET raised == message.message_type \in HandledTypes(agent)
                    /\ outcome = "raises"
    IN [bus |-> IF raised THEN send_message(B, ErrorFor(agent, message)) ELSE B,
        raised |-> raised, escaped |-> FALSE]

\* a message of any type is sent to an agent
AgentSend ==
    /\ Len(sent) < MaxMsgs
    /\ \E sender \in SenderIds, recipient \in AgentIds,
          message_type \in PostedTypes :
          LET message == [NewMessage(Len(sent) + 1, sender, recipient, None)
                            EXCEPT !.message_type = message_type]
              B2 == send_message(Bus, message)
          IN /\ sent' = Append(sent, message)
             /\ queues' = B2.queues
             /\ history' = B2.history
             /\ bus_op' = [op |-> "send_message", agent |-> recipient]
    /\ UNCHANGED <<delivered, returned, batch, handled, loop>>
    /\ UNCHANGED <<wfvars, ghostvars, threadvars, mgrvars, compvars, now,
                   fsvars, callvars>>

\* run(), maestro.py 66-68 and outline.py 68-70: the mailbox is drained
AgentPoll ==
    \E agent \in AgentIds :
        LET r == get_messages(Bus, agent)
        IN /\ loop[agent] = "running"
           /\ batch[agent] = <<>>
           /\ r.messages # <<>>
           /\ queues' = r.bus.queues
           /\ batch' = [batch EXCEPT ![agent] = r.messages]
           /\ delivered' = [delivered EXCEPT ![agent] = @ \o r.messages]
           /\ returned' = r.messages
           /\ bus_op' = [op |-> "get_messages", agent |-> agent]
           /\ UNCHANGED <<history, sent, handled, loop>>
           /\ UNCHANGED <<wfvars, ghostvars, threadvars, mgrvars, compvars,
                          now, fsvars, callvars>>

\* run(), maestro.py 69-70 and outline.py 71-72: the next message of the
\* batch is given to _process_message; an exception that leaves it ends run()
AgentProcess ==
    \E agent \in AgentIds, outcome \in HandlerOutcomes :
        LET message == Head(batch[agent])
            r == process_message(Bus, agent, message, outcome)
        IN /\ loop[agent] = "running"
           /\ batch[agent] # <<>>
           /\ queues' = r.bus.queues
           /\ history' = r.bus.history
           /\ handled' = [handled EXCEPT ![agent] =
                              Append(@, [message |-> message,
                                         raised |-> r.raised])]
           /\ batch' = [batch EXCEPT ![agent] = Tail(@)]
           /\ loop' = [loop EXCEPT ![agent] =
                           IF r.escaped THEN "dead" ELSE "running"]
           /\ UNCHANGED <<sent, delivered, returned, bus_op>>
           /\ UNCHANGED <<wfvars, ghostvars, threadvars, mgrvars, compvars,
                          now, fsvars, callvars>>

NextAgents ==
    \/ AgentSend
    \/ AgentPoll
    \/ AgentProcess

SpecAgents == Init /\ [][NextAgents]_vars

HandledMessages(agent) ==
    [i \in 1..Len(handled[agent]) |-> handled[agent][i].message]

\* C27: no exception leaves _process_message: whatever the type of the
\* message and whether or not its handler raises, the loop goes on, every
\* drained message is handled or is still waiting in the batch of a running
\* loop, and a handler's failure is answered with an Error to the sender
C27_NoExceptionEscapes ==
    /\ [](\A agent \in AgentIds :
             /\ loop[agent] = "running"
             /\ delivered[agent] = HandledMessages(agent) \o batch[agent])
    /\ [][\A agent \in AgentIds :
             /\ Len(handled'[agent]) > Len(handled[agent])
             /\ handled'[agent][Len(handled'[agent])].raised
             => history' = Append(history, ErrorFor(agent, Head(batch[agent])))
          ]_vars

\* a handler of maestro has just raised, after an earlier message was
\* handled and with messages of the same batch left
C27_Witness ==
    /\ Len(handled["maestro"]) >= 2
    /\ handled["maestro"][Len(handled["maestro"])].raised
    /\ batch["maestro"] # <<>>
    /\ loop["maestro"] = "running"


(***************************************************************************)
(* The retry wrappers of the two backends (src/models/claude.py 150-179,   *)
(* src/models/stability.py 180-208).  complete and generate_image return a *)
(* response or raise the backend's error class, whatever went wrong        *)
(* (claude.py 84-104, stability.py 111-142).                               *)
(***************************************************************************)
MaxRetries == 3

Backends == {"claude", "stability"}
Responses == {"r1", "r2"}
BackendErrors == {"x1", "x2"}
RetryDelays == {1, 2}

\* 2 ** attempt
RECURSIVE Pow2(_)
Pow2(attempt) == IF attempt = 0 THEN 1 ELSE 2 * Pow2(attempt - 1)

\* one pass of the loop that re-raises the first failure
retry_attempt_once(R, outcome) ==
    LET R1 == [R EXCEPT !.calls = Append(@, outcome)]
    IN IF outcome.ok
         THEN [R1 EXCEPT !.pc = "returned", !.value = <<outcome.value>>]
         ELSE [R1 EXCEPT !.pc = "raised", !.value = <<outcome.value>>]

\* one pass of "for attempt in range(max_retries)", claude.py 167-179 and
\* stability.py 196-208: the backend is called; its response is returned;
\* its error is followed by a sleep and the next pass, or raised again when
\* this was the last pass
retry_attempt(R, outcome) ==
    LET R1 == [R EXCEPT !.calls = Append(@, outcome)]
    IN IF outcome.ok
         THEN [R1 EXCEPT !.pc = "returned", !.value = <<outcome.value>>]
         ELSE IF R.attempt < R.max_retries - 1
           THEN [R1 EXCEPT !.sleeps = Append(@, R.retry_delay * Pow2(R.attempt)),
                           !.attempt = @ + 1]
           ELSE [R1 EXCEPT !.pc = "raised", !.value = <<outcome.value>>]

\* complete_with_retry / generate_with_retry is called
RetryCall ==
    /\ retry.pc # "loop"
    /\ \E backend \in Backends, max_retries \in 1..MaxRetries,
          retry_delay \in RetryDelays :
          retry' = [NoCall EXCEPT !.pc = "loop", !.backend = backend,
                                  !.max_retries = max_retries,
                                  !.retry_delay = retry_delay]
    /\ UNCHANGED <<wfvars, ghostvars, busvars, threadvars, mgrvars, compvars,
                   now, fsvars, agentvars, request, creation,
                   conversation>>

\* the next pass of the loop; the backend answers or fails
RetryAttempt ==
    /\ retry.pc = "loop"
    /\ \E outcome \in [ok : {TRUE}, value : Responses]
                        \cup [ok : {FALSE}, value : BackendErrors] :
          retry' = retry_attempt(retry, outcome)
    /\ UNCHANGED <<wfvars, ghostvars, busvars, threadvars, mgrvars, compvars,
                   now, fsvars, agentvars, request, creation,
                   conversation>>

NextRetry ==
    \/ RetryCall
    \/ RetryAttempt

SpecRetry == Init /\ [][NextRetry]_vars

FailedCalls(calls) == \A i \in 1..Len(calls) : ~calls[i].ok

\* C28: with max_retries = n >= 1 the backend is called at most n times; the
\* wrapper returns the response of the first call that succeeds and calls no
\* more; it raises only after n failed calls, and then the error of the last
\* one; until then it goes on after a sleep of retry_delay * 2 ** attempt
C28_RetryBounded ==
    retry.pc # "idle" /\ retry.max_retries >= 1 =>
        LET n == retry.max_retries
            calls == retry.calls
        IN /\ Len(calls) <= n
           /\ retry.pc = "loop" =>
                 /\ Len(calls) < n
                 /\ FailedCalls(calls)
                 /\ retry.attempt = Len(calls)
           /\ retry.pc = "returned" =>
                 /\ calls # <<>>
                 /\ calls[Len(calls)].ok
                 /\ FailedCalls(SubSeq(calls, 1, Len(calls) - 1))
                 /\ retry.value = <<calls[Len(calls)].value>>
           /\ retry.pc = "raised" =>
                 /\ Len(calls) = n
                 /\ FailedCalls(calls)
                 /\ retry.value = <<calls[n].value>>
           /\ Len(retry.sleeps) = Len(SelectSeq(calls, LAMBDA c : ~c.ok))
                                    - (IF retry.pc = "raised" THEN 1 ELSE 0)
           /\ \A i \in 1..Len(retry.sleeps) :
                 retry.sleeps[i] = retry.retry_delay * Pow2(i - 1)

\* the third call of a wrapper with max_retries = 3 succeeded after two
\* failures and its response was returned
C28_Witness ==
    /\ retry.pc = "returned"
    /\ retry.max_retries = 3
    /\ Len(retry.calls) = 3
    /\ retry.value = <<"r2">>


(***************************************************************************)
(* The requests of the facade that wait for maestro's answer               *)
(* (src/inkharmony.py 186-245 and 247-304).                                *)
(***************************************************************************)
\* timeout = 30 seconds (inkharmony.py 226, 285) and time.sleep(0.5) between
\* two looks at the history (inkharmony.py 239, 298)
timeout == 30
SleepsPerSecond == 2

\* the str "result" of the filter.  MessageType is a plain Enum
\* (messaging.py 12): RESULT above is the member MessageType.RESULT, and a
\* member is equal to no str, its own value included
str_result == "'result'"

RequestOps == {"assign_task", "progress_workflow"}

\* the key of the Result's content each request reads
ResultKey(op) == IF op = "assign_task" THEN "task_id" ELSE "current_status"

\* what maestro puts into the Result (maestro.py 396-404, 621-628)
ResultContent == [task_id |-> "t1", current_status |-> RUNNING]

\* the filter with MessageType.RESULT
result_filter_enum(message_id) ==
    [parent_id |-> message_id, message_type |-> RESULT, sender |-> "maestro"]

\* the filter of inkharmony.py 230-234 and 289-293
result_filter(message_id) ==
    [parent_id |-> message_id, message_type |-> str_result,
     sender |-> "maestro"]

\* the Results maestro posted for a message
ResultsFor(message_id) == get_history(Bus, result_filter_enum(message_id))

\* assign_task 209-218, progress_workflow 270-278: create_task to maestro
RequestSend ==
    /\ request.pc = "idle"
    /\ Len(sent) < MaxMsgs
    /\ \E op \in RequestOps :
          LET message == NewMessage(Len(sent) + 1, "system", "maestro", None)
              B2 == send_message(Bus, message)
          IN /\ sent' = Append(sent, message)
             /\ queues' = B2.queues
             /\ history' = B2.history
             /\ bus_op' = [op |-> "send_message", agent |-> "maestro"]
             /\ request' = [NoRequest EXCEPT !.pc = "waiting", !.op = op,
                                             !.message_id = message.message_id]
    /\ UNCHANGED <<delivered, returned>>
    /\ UNCHANGED <<wfvars, ghostvars, threadvars, storevars_but_calls>>
    /\ UNCHANGED <<retry, creation, conversation>>

\* maestro handles the task and answers: a Result with the task's id as
\* parent_id (maestro.py 396-404, 624-628) or, when the handler failed, an
\* Error (maestro.py 100-107)
MaestroAnswer ==
    /\ request.pc = "waiting"
    /\ Mailbox("maestro") # <<>>
    /\ \E outcome \in HandlerOutcomes :
          LET message == Head(Mailbox("maestro"))
              answer == IF outcome = "returns"
                          THEN [NewMessage(message.message_id + MaxMsgs,
                                           "maestro", message.sender,
                                           message.message_id)
                                  EXCEPT !.content = ResultContent]
                          ELSE ErrorFor("maestro", message)
              B2 == send_message(get_messages(Bus, "maestro").bus, answer)
          IN /\ queues' = B2.queues
             /\ history' = B2.history
             /\ delivered' = [delivered EXCEPT !["maestro"] =
                                  @ \o Mailbox("maestro")]
    /\ UNCHANGED <<sent, returned, bus_op>>
    /\ UNCHANGED <<wfvars, ghostvars, threadvars, storevars_but_calls>>
    /\ UNCHANGED callvars

\* one pass of the while loop, inkharmony.py 228-239 and 287-298: the
\* history is searched; a match is returned, otherwise the caller sleeps
RequestPoll ==
    /\ request.pc = "waiting"
    /\ request.waited < timeout * SleepsPerSecond
    /\ LET result_messages == get_history(Bus, result_filter(request.message_id))
       IN request' = IF result_messages # <<>>
                       THEN [request EXCEPT
                               !.pc = "returned",
                               !.value = <<result_messages[1].content[
                                               ResultKey(request.op)]>>]
                       ELSE [request EXCEPT !.waited = @ + 1]
    /\ UNCHANGED <<wfvars, ghostvars, busvars, threadvars, storevars_but_calls>>
    /\ UNCHANGED <<retry, creation, conversation>>

\* inkharmony.py 241 and 300: the loop is over, TimeoutError is raised
RequestTimeout ==
    /\ request.pc = "waiting"
    /\ request.waited >= timeout * SleepsPerSecond
    /\ request' = [request EXCEPT !.pc = "TimeoutError"]
    /\ UNCHANGED <<wfvars, ghostvars, busvars, threadvars, storevars_but_calls>>
    /\ UNCHANGED <<retry, creation, conversation>>

NextRequest ==
    \/ RequestSend
    \/ MaestroAnswer
    \/ RequestPoll
    \/ RequestTimeout

SpecRequest == Init /\ [][NextRequest]_vars

\* C29: TimeoutError is raised only when maestro posted no Result with the
\* request's id as parent_id before the timeout; when one is posted, the
\* call returns the task_id (assign_task) or the current_status
\* (progress_workflow) of that Result
C29_ResultResolvesRequest ==
    /\ request.pc = "TimeoutError" => ResultsFor(request.message_id) = <<>>
    /\ request.pc = "returned" =>
          /\ ResultsFor(request.message_id) # <<>>
          /\ request.value = <<ResultsFor(request.message_id)[1].content[
                                   ResultKey(request.op)]>>


(***************************************************************************)
(* Book creation (src/agents/maestro.py 797-833) while maestro's own       *)
(* thread, started by initialize (src/inkharmony.py 76-85), runs the loop  *)
(* of maestro.py 66-70 on the same mailbox.                                *)
(***************************************************************************)
\* _initialize_book, maestro.py 232-310: a workflow is created and a Result
\* with its book id is sent to the task's sender, or the failure is answered
\* with an Error
initialize_book(B, message, outcome, t) ==
    IF outcome = "returns"
      THEN send_message(B, [NewMessage(message.message_id + MaxMsgs,
                                       "maestro", message.sender,
                                       message.message_id)
                              EXCEPT !.content =
                                         [book_id |-> create_new_book_id(t)]])
      ELSE send_message(B, ErrorFor("maestro", message))

\* what handling a message of maestro's mailbox does to the bus
maestro_process(B, message, outcome, t) ==
    IF message.message_id = creation.message_id
      THEN initialize_book(B, message, outcome, t)
      ELSE process_message(B, "maestro", message, outcome).bus

\* the answers to the initialize_book task, maestro.py 823-827
responses_of(B, message_id) ==
    get_history(B, [parent_id |-> message_id, message_type |-> RESULT,
                    sender |-> "maestro"])

\* start_book_creation 808-813: create_task("system", self.agent_id, ...)
CreateSend ==
    /\ creation.pc = "idle"
    /\ Len(sent) < MaxMsgs
    /\ LET message == NewMessage(Len(sent) + 1, "system", "maestro", None)
           B2 == send_message(Bus, message)
       IN /\ sent' = Append(sent, message)
          /\ queues' = B2.queues
          /\ history' = B2.history
          /\ bus_op' = [op |-> "send_message", agent |-> "maestro"]
          /\ creation' = [NoCreation EXCEPT !.pc = "get_messages",
                                            !.message_id = message.message_id]
    /\ UNCHANGED <<delivered, returned>>
    /\ UNCHANGED <<wfvars, ghostvars, threadvars, storevars_but_calls>>
    /\ UNCHANGED <<retry, request, conversation>>

\* start_book_creation 816: the caller drains maestro's mailbox itself
CreateDrain ==
    /\ creation.pc = "get_messages"
    /\ LET r == get_messages(Bus, "maestro")
       IN /\ queues' = r.bus.queues
          /\ creation' = [creation EXCEPT !.pc = "process",
                                          !.messages = r.messages]
          /\ returned' = r.messages
          /\ bus_op' = [op |-> "get_messages", agent |-> "maestro"]
    /\ UNCHANGED <<history, sent, delivered>>
    /\ UNCHANGED <<wfvars, ghostvars, threadvars, storevars_but_calls>>
    /\ UNCHANGED <<retry, request, conversation>>

\* start_book_creation 817-820: only the task just created is handled
CreateProcess ==
    /\ creation.pc = "process"
    /\ \E outcome \in HandlerOutcomes :
          LET mine == SelectSeq(creation.messages,
                                LAMBDA msg : msg.message_id = creation.message_id)
              B2 == IF mine # <<>>
                      THEN maestro_process(Bus, mine[1], outcome, now)
                      ELSE Bus
          IN /\ queues' = B2.queues
             /\ history' = B2.history
    /\ creation' = [creation EXCEPT !.pc = "get_history"]
    /\ UNCHANGED <<sent, delivered, returned, bus_op>>
    /\ UNCHANGED <<wfvars, ghostvars, threadvars, storevars_but_calls>>
    /\ UNCHANGED <<retry, request, conversation>>

\* start_book_creation 823-833: the Result is looked up in the history
CreateLookup ==
    /\ creation.pc = "get_history"
    /\ LET responses == responses_of(Bus, creation.message_id)
       IN creation' = IF responses = <<>>
                        THEN [creation EXCEPT !.pc = "raised",
                                !.value = <<"Failed to initialize book">>]
                        ELSE [creation EXCEPT !.pc = "returned",
                                !.value = <<responses[1].content.book_id>>]
    /\ UNCHANGED <<wfvars, ghostvars, busvars, threadvars, storevars_but_calls>>
    /\ UNCHANGED <<retry, request, conversation>>

\* run() 66-68 in maestro's thread: the mailbox is drained
PollDrain ==
    LET r == get_messages(Bus, "maestro")
    IN /\ batch["maestro"] = <<>>
       /\ r.messages # <<>>
       /\ queues' = r.bus.queues
       /\ batch' = [batch EXCEPT !["maestro"] = r.messages]
       /\ delivered' = [delivered EXCEPT !["maestro"] = @ \o r.messages]
       /\ UNCHANGED <<history, sent, returned, bus_op, handled, loop>>
       /\ UNCHANGED <<wfvars, ghostvars, threadvars, mgrvars, compvars, now,
                      fsvars, callvars>>

\* run() 69-70 in maestro's thread: the next message of the batch is handled
PollProcess ==
    \E outcome \in HandlerOutcomes :
        LET message == Head(batch["maestro"])
            B2 == maestro_process(Bus, message, outcome, now)
        IN /\ batch["maestro"] # <<>>
           /\ queues' = B2.queues
           /\ history' = B2.history
           /\ handled' = [handled EXCEPT !["maestro"] =
                              Append(@, [message |-> message,
                                         raised |-> outcome = "raises"])]
           /\ batch' = [batch EXCEPT !["maestro"] = Tail(@)]
           /\ UNCHANGED <<sent, delivered, returned, bus_op, loop>>
           /\ UNCHANGED <<wfvars, ghostvars, threadvars, mgrvars, compvars,
                          now, fsvars, callvars>>

NextCreate ==
    \/ CreateSend
    \/ CreateDrain
    \/ CreateProcess
    \/ CreateLookup
    \/ PollDrain
    \/ PollProcess
    \/ AgentSend
    \/ Tick

SpecCreate == Init /\ [][NextCreate]_vars

\* C30: whichever thread handles the initialize_book task, once it was
\* handled with success (its Result is in the history) a finished
\* start_book_creation has returned the book id of that Result and has not
\* raised "Failed to initialize book"
C30_CreationReturnsBookId ==
    creation.pc \in {"returned", "raised"}
      /\ responses_of(Bus, creation.message_id) # <<>>
    => /\ creation.pc = "returned"
       /\ creation.value =
              <<responses_of(Bus, creation.message_id)[1].content.book_id>>


\* the messages start_book_creation took from the mailbox and did not hand
\* to _process_message, once its loop over the batch is over
Unprocessed ==
    IF creation.pc \in {"get_history", "returned", "raised"}
      THEN SelectSeq(creation.messages,
                     LAMBDA msg : msg.message_id # creation.message_id)
      ELSE <<>>

\* C31: every message a destructive drain removes from maestro's mailbox is
\* passed to _process_message: the ones the thread's loop took are handled
\* or wait in its batch, and the ones start_book_creation took while picking
\* out its own task are handled too
C31_NoMessageDiscarded ==
    /\ delivered["maestro"] = HandledMessages("maestro") \o batch["maestro"]
    /\ Unprocessed = <<>>


(***************************************************************************)
(* maestro's progress_workflow task (src/agents/maestro.py 529-636): the   *)
(* action of the request and the action named by the backend's decision.   *)
(***************************************************************************)
Actions == {"next", "pause", "resume"}

\* decision.get("action"): an action, or a text that names none of them;
\* when the backend's text is no JSON the decision carries the request's
\* action (maestro.py 587-595)
DecisionActions == Actions \cup {"review"}

\* _progress_workflow 551-618 on the manager: the workflow is looked up and
\* the first branch whose condition holds is taken
progress_workflow(M, book_id, action, decision_action, t) ==
    LET r == get_workflow(M, book_id)
    IN IF r.workflow = <<>>
         THEN [mgr |-> r.mgr, outcome |-> "Workflow not found"]
         ELSE IF action = "next" \/ decision_action = "next"
           THEN IF r.workflow[1].current_phase # None
                  THEN [mgr |-> manager_complete_phase(r.mgr, book_id, t).mgr,
                        outcome |-> "Advanced to next phase"]
                  ELSE [mgr |-> start_workflow(r.mgr, book_id, t).mgr,
                        outcome |-> "Started workflow"]
         ELSE IF action = "pause" \/ decision_action = "pause"
           THEN [mgr |-> pause_workflow(r.mgr, book_id).mgr,
                 outcome |-> "Paused workflow"]
         ELSE IF action = "resume" \/ decision_action = "resume"
           THEN [mgr |-> resume_workflow(r.mgr, book_id).mgr,
                 outcome |-> "Resumed workflow"]
         ELSE [mgr |-> r.mgr, outcome |-> "No action taken"]

ProgressWorkflow ==
    \E book_id \in KnownBookIds, action \in Actions,
       decision_action \in DecisionActions :
        LET r == progress_workflow(Manager, book_id, action, decision_action,
                                   now)
        IN /\ MgrCall("progress_workflow", book_id, r.mgr,
                      <<action, decision_action, r.outcome>>)
           /\ Mutated(book_id, r.mgr, book_id \in DOMAIN r.mgr.active_workflows)
           /\ UNCHANGED created

NextProgress ==
    \/ CreateWorkflow
    \/ ProgressWorkflow
    \/ Tick

SpecProgress == Init /\ [][NextProgress]_vars

\* the transition the requested action stands for
RequestedTransition(action, W, t) ==
    CASE action = "pause" -> pause(W)
      [] action = "resume" -> resume(W)
      [] action = "next" -> IF W.wf.current_phase # None
                              THEN complete_phase(W, t)
                              ELSE start(W, t)

\* C32: a progress_workflow task applies the transition of its own action,
\* whatever the decision of the backend names: pause for "pause", resume for
\* "resume", and for "next" complete_phase when a phase is active and start
\* otherwise
C32_RequestedActionDecides ==
    [][(/\ mcalls' # mcalls
        /\ mgr_op'.op = "progress_workflow"
        /\ Resolves(mgr_op'.book_id))
          => LET b == mgr_op'.book_id
                 W == RequestedTransition(mgr_op'.result[1], ResolvedWorld(b),
                                          now)
             IN /\ active_workflows'[b] = W.wf
                /\ disk'[b].state_file = W.state_file
                /\ disk'[b].metadata_file = W.metadata_file]_vars


(***************************************************************************)
(* maestro's handlers over the bus and the manager (src/agents/maestro.py  *)
(* 109-194, 232-414, 529-636).  S = [bus, mgr].  A message carries its     *)
(* content and metadata; a key that is absent is <<>>.  Message ids are    *)
(* the position of the message in the history.  A fault names the call of  *)
(* the handler that raises.                                                *)
(***************************************************************************)
NoMetadata == [task_type |-> <<>>, book_id |-> <<>>]

\* Message(...) followed by message_queue.send_message(msg)
Post(B, message_type, sender, recipient, content, parent_id, metadata) ==
    send_message(B, [message_id |-> Len(B.history) + 1,
                     message_type |-> message_type, sender |-> sender,
                     recipient |-> recipient, content |-> content,
                     timestamp |-> Len(B.history) + 1,
                     parent_id |-> parent_id, metadata |-> metadata])

\* messaging.py 155-178
create_task(B, sender, recipient, task_type, content, parent_id) ==
    Post(B, TASK, sender, recipient, content, parent_id,
         [NoMetadata EXCEPT !.task_type = <<task_type>>])

\* messaging.py 180-203
send_result(B, sender, recipient, content, parent_id, metadata) ==
    Post(B, RESULT, sender, recipient, content, parent_id, metadata)

\* messaging.py 205-233
send_feedback(B, sender, recipient, feedback, parent_id) ==
    Post(B, "feedback", sender, recipient, [feedback |-> feedback], parent_id,
         NoMetadata)

\* messaging.py 235-258
send_error(B, sender, recipient, error_message, parent_id, details) ==
    Post(B, ERROR, sender, recipient, [error |-> error_message], parent_id,
         details)

TaskFaults == {"none", "backend", "add_task", "start_workflow"}

\* the Error a handler sends to the sender of the message it handles
ErrorReply(S, message, error_message) ==
    send_error(S.bus, "maestro", message.sender, error_message,
               message.message_id, NoMetadata)

\* _initialize_book 232-310: the backend is asked, the workflow is created,
\* the Result is sent, the workflow is started; an exception of any of these
\* is answered with an Error
maestro_initialize_book(S, message, fault, t) ==
    IF fault = "backend"
      THEN [bus |-> ErrorReply(S, message, "Error initializing book"),
            mgr |-> S.mgr]
      ELSE LET c == manager_create_workflow(S.mgr, BookMetadata, t)
               S1 == [bus |-> send_result(S.bus, "maestro", message.sender,
                                          [book_id |-> <<c.book_id>>],
                                          message.message_id, NoMetadata),
                      mgr |-> c.mgr]
           IN IF fault = "start_workflow"
                THEN [S1 EXCEPT !.bus = ErrorReply(S1, message,
                                                   "Error initializing book")]
                ELSE [S1 EXCEPT !.mgr = start_workflow(@, c.book_id, t).mgr]

\* _assign_task 312-414
maestro_assign_task(S, message, fault) ==
    LET book_id == message.content.book_id
        target_agent == message.content.agent
    IN IF book_id = <<>> \/ target_agent = <<>>
         THEN [S EXCEPT !.bus = ErrorReply(S, message,
                                           "Missing book_id or agent in content")]
         ELSE
           LET r == get_workflow(S.mgr, book_id[1])
               S1 == [S EXCEPT !.mgr = r.mgr]
           IN IF r.workflow = <<>>
                THEN [S1 EXCEPT !.bus = ErrorReply(S, message,
                                                   "Workflow not found")]
                ELSE IF fault = "backend"
                  THEN [S1 EXCEPT !.bus = ErrorReply(S, message,
                                                     "Error assigning task")]
                  ELSE
                    LET task_id == Len(S.bus.history) + 1
                        S2 == [S1 EXCEPT !.bus =
                                  create_task(@, "maestro", target_agent[1],
                                              "agent_task",
                                              [book_id |-> book_id,
                                               agent |-> <<>>,
                                               action |-> <<>>],
                                              message.message_id)]
                    IN IF fault = "add_task"
                         THEN [S2 EXCEPT !.bus =
                                  ErrorReply(S2, message, "Error assigning task")]
                         ELSE [bus |-> send_result(S2.bus, "maestro",
                                                   message.sender,
                                                   [task_id |-> task_id],
                                                   message.message_id,
                                                   NoMetadata),
                               mgr |-> StoreWorld(
                                          S2.mgr, book_id[1],
                                          add_task(WorldOf(S2.mgr, book_id[1]),
                                                   task_id, "a"))]

\* _progress_workflow 529-636; a decision that is no JSON names the
\* request's action
maestro_progress_workflow(S, message, fault, t) ==
    LET book_id == message.content.book_id
        action == IF message.content.action = <<>>
                    THEN "next" ELSE message.content.action[1]
    IN IF book_id = <<>>
         THEN [S EXCEPT !.bus = ErrorReply(S, message,
                                           "Missing book_id in content")]
         ELSE
           LET r == get_workflow(S.mgr, book_id[1])
               S1 == [S EXCEPT !.mgr = r.mgr]
           IN IF r.workflow = <<>>
                THEN [S1 EXCEPT !.bus = ErrorReply(S, message,
                                                   "Workflow not found")]
                ELSE IF fault = "backend"
                  THEN [S1 EXCEPT !.bus = ErrorReply(S, message,
                                                     "Error progressing workflow")]
                  ELSE
                    LET p == progress_workflow(S1.mgr, book_id[1], action,
                                               action, t)
                    IN [bus |-> send_result(S.bus, "maestro", message.sender,
                                            [outcome |-> p.outcome],
                                            message.message_id, NoMetadata),
                        mgr |-> p.mgr]

\* _handle_task 109-144
maestro_handle_task(S, message, fault, t) ==
    LET task_type == message.metadata.task_type
    IN IF task_type = <<>>
         THEN [S EXCEPT !.bus = ErrorReply(S, message,
                                           "Missing task_type in metadata")]
       ELSE IF task_type = <<"initialize_book">>
         THEN maestro_initialize_book(S, message, fault, t)
       ELSE IF task_type = <<"assign_task">>
         THEN maestro_assign_task(S, message, fault)
       ELSE IF task_type = <<"progress_workflow">>
         THEN maestro_progress_workflow(S, message, fault, t)
       ELSE [S EXCEPT !.bus = ErrorReply(S, message, "Unknown task type")]

\* _handle_result 146-177: the task of the result is looked up by the
\* result's parent_id, the result goes to the workflow's add_result under
\* the task's id, and the sender gets a Feedback
maestro_handle_result(S, message) ==
    LET task_messages == get_history(S.bus, [message_id |-> message.parent_id,
                                             message_type |-> TASK])
        book_id == message.metadata.book_id
        r == get_workflow(S.mgr, book_id[1])
    IN IF task_messages = <<>> THEN S
       ELSE [bus |-> send_feedback(S.bus, "maestro", message.sender,
                                   "Result received and processed",
                                   message.message_id),
             mgr |-> IF book_id = <<>> THEN S.mgr
                     ELSE IF r.workflow = <<>> THEN r.mgr
                     ELSE StoreWorld(r.mgr, book_id[1],
                                     add_result(WorldOf(r.mgr, book_id[1]),
                                                task_messages[1].message_id,
                                                "a"))]

\* _handle_error that only logs the error
handle_error_logged(S, message) == S

\* _handle_error 179-194
maestro_handle_error(S, message) ==
    LET error_text == message.content.error
        book_id == message.metadata.book_id
        r == get_workflow(S.mgr, book_id[1])
    IN IF book_id = <<>> THEN S
       ELSE IF r.workflow = <<>> THEN [S EXCEPT !.mgr = r.mgr]
       ELSE [S EXCEPT !.mgr = StoreWorld(r.mgr, book_id[1],
                                         fail(WorldOf(r.mgr, book_id[1]),
                                              error_text))]

\* _process_message 80-107 for the types maestro gets here
maestro_process_message(S, message, fault, t) ==
    IF message.message_type = TASK
      THEN maestro_handle_task(S, message, fault, t)
    ELSE IF message.message_type = RESULT
      THEN maestro_handle_result(S, message)
    ELSE IF message.message_type = ERROR
      THEN maestro_handle_error(S, message)
    ELSE S


(***************************************************************************)
(* Specification of maestro at work: tasks are posted to it, its loop      *)
(* drains the mailbox and handles the batch, and a worker answers the      *)
(* tasks maestro assigns to it.                                            *)
(***************************************************************************)
NoContent == [book_id |-> <<>>, agent |-> <<>>, action |-> <<>>]

\* the book ids a caller can name: none, those of the books made so far, and
\* one of no book
NamedBooks == {<<>>} \cup {<<b>> : b \in KnownBookIds}

\* the tasks the facade and its callers post to maestro
TaskRequests ==
    {[task_type |-> <<>>, content |-> NoContent],
     [task_type |-> <<"unknown">>, content |-> NoContent],
     [task_type |-> <<"initialize_book">>, content |-> NoContent]}
    \cup {[task_type |-> <<"assign_task">>,
           content |-> [NoContent EXCEPT !.book_id = <<NoSuchBook>>]]}
    \cup {[task_type |-> <<"assign_task">>,
           content |-> [NoContent EXCEPT !.book_id = b,
                                         !.agent = <<"outline">>]] :
             b \in NamedBooks}
    \cup {[task_type |-> <<"progress_workflow">>,
           content |-> [NoContent EXCEPT !.book_id = b,
                                         !.action = <<"next">>]] :
             b \in NamedBooks}

\* create_task("system", "maestro", ...) of inkharmony.py 211-220, 272-280
\* and maestro.py 808-813, and a task without task_type
PostFrom(requests, limit) ==
    /\ Len(sent) < limit
    /\ \E task \in requests :
          LET B2 == Post(Bus, TASK, "system", "maestro", task.content, None,
                         [NoMetadata EXCEPT !.task_type = task.task_type])
          IN /\ sent' = Append(sent, B2.history[Len(B2.history)])
             /\ queues' = B2.queues
             /\ history' = B2.history
    /\ UNCHANGED <<delivered, returned, bus_op>>
    /\ UNCHANGED <<wfvars, ghostvars, threadvars, storevars>>

PostTask == PostFrom(TaskRequests, MaxMsgs)

\* run() 69-70: maestro handles the next message of its batch
MaestroProcess ==
    \E fault \in TaskFaults :
        LET message == Head(batch["maestro"])
            S2 == maestro_process_message([bus |-> Bus, mgr |-> Manager],
                                          message, fault, now)
        IN /\ batch["maestro"] # <<>>
           /\ queues' = S2.bus.queues
           /\ history' = S2.bus.history
           /\ active_workflows' = S2.mgr.active_workflows
           /\ disk' = S2.mgr.disk
           /\ created' = created \o
                 SelectSeq(<<create_new_book_id(now)>>,
                           LAMBDA b : /\ b \in DOMAIN S2.mgr.disk
                                      /\ message.metadata.task_type
                                           = <<"initialize_book">>
                                      /\ fault # "backend"
                                      /\ message.message_type = TASK)
           /\ handled' = [handled EXCEPT !["maestro"] =
                              Append(@, [message |-> message,
                                         raised |-> FALSE])]
           /\ batch' = [batch EXCEPT !["maestro"] = Tail(@)]
           /\ UNCHANGED <<sent, delivered, returned, bus_op, loop>>
           /\ UNCHANGED <<wfvars, ghostvars, threadvars, mgr_op, last_saved,
                          mcalls, compvars, now, fsvars, callvars>>

WorkerReplies == {"result", "error", "error_without_book", "error_other_book"}

\* a worker takes the next message of its mailbox; a task is answered with
\* a Result (outline.py 319-329) or an Error (outline.py 338-344) that carry
\* the book id in their metadata, or an Error without it (outline.py 96-101);
\* the book id is the one the worker was given or one the manager never made
WorkerAnswer ==
    \E reply \in WorkerReplies :
        LET message == Head(Mailbox("outline"))
            B1 == [Bus EXCEPT !.queues["outline"] = Tail(@)]
            details == [NoMetadata EXCEPT !.book_id = message.content.book_id]
            B2 == IF message.message_type # TASK THEN B1
                  ELSE IF reply = "result"
                    THEN send_result(B1, "outline", message.sender,
                                     [book_id |-> message.content.book_id],
                                     message.message_id, details)
                  ELSE IF reply = "error"
                    THEN send_error(B1, "outline", message.sender, "e1",
                                    message.message_id, details)
                  ELSE IF reply = "error_other_book"
                    THEN send_error(B1, "outline", message.sender, "e3",
                                    message.message_id,
                                    [NoMetadata EXCEPT
                                         !.book_id = <<NoSuchBook>>])
                  ELSE send_error(B1, "outline", message.sender, "e2",
                                  message.message_id, NoMetadata)
        IN /\ Mailbox("outline") # <<>>
           /\ queues' = B2.queues
           /\ history' = B2.history
           /\ UNCHANGED <<sent, delivered, returned, bus_op>>
           /\ UNCHANGED <<wfvars, ghostvars, threadvars, storevars>>

NextMaestro ==
    \/ PostTask
    \/ PollDrain
    \/ MaestroProcess
    \/ WorkerAnswer

SpecMaestro == Init /\ [][NextMaestro]_vars

(***************************************************************************)
(* Specification of maestro and a worker on the books maestro has made:    *)
(* the tasks posted are the facade's, create a book, assign a task on a    *)
(* book made, advance a book made.                                         *)
(***************************************************************************)
BookRequests ==
    {r \in TaskRequests :
        \/ r.task_type = <<"initialize_book">>
        \/ /\ r.content.book_id # <<>>
           /\ r.content.book_id # <<NoSuchBook>>
           /\ r.content.agent # <<>> \/ r.content.action # <<>>}

\* the tasks one caller posts in a run
MaxTasks == 2

PostBookTask == PostFrom(BookRequests, MaxTasks)

NextErrors ==
    \/ PostBookTask
    \/ PollDrain
    \/ MaestroProcess
    \/ WorkerAnswer

SpecErrors == Init /\ [][NextErrors]_vars


\* the Results and Errors maestro sent to the sender of a task about it
RepliesTo(task) ==
    SelectSeq(history,
              LAMBDA msg : /\ msg.parent_id = task.message_id
                           /\ msg.message_type \in {RESULT, ERROR}
                           /\ msg.sender = "maestro"
                           /\ msg.recipient = task.sender)

\* C33: every Task maestro has processed got exactly one Result or Error to
\* its sender with the task's id as parent_id, whatever its task_type and
\* content and wherever its handler failed
C33_OneReplyPerTask ==
    \A i \in 1..Len(handled["maestro"]) :
        handled["maestro"][i].message.message_type = TASK
          => Len(RepliesTo(handled["maestro"][i].message)) = 1


\* C34: in every workflow the manager holds, each task id with a result in a
\* phase is a task id of that same phase
C34_ResultsInPhaseOfTask ==
    \A b \in DOMAIN active_workflows : \A ph \in PhaseNames :
        DOMAIN active_workflows[b].phases[ph].results
          \subseteq DOMAIN active_workflows[b].phases[ph].tasks


\* C35: whenever the workflow status is Running a phase is current and that
\* phase is Running; pause() then resume() on a never-started workflow
\* included
C35_RunningHasActivePhase ==
    workflow.status = RUNNING =>
        /\ workflow.current_phase # None
        /\ workflow.phases[workflow.current_phase].status = RUNNING


(***************************************************************************)
(* The narrative worker's chapter bookkeeping (narrative.py 267-268,       *)
(* 369-378) beside the workflow's own saves: both write metadata.json of   *)
(* the book through BookStorage.save_metadata.                             *)
(***************************************************************************)
ChapterNumbers == 1..2

\* BookStorage.load_metadata (storage.py 52-63): {} when the file is absent
load_metadata(W) ==
    IF W.metadata_file = <<>> THEN <<>> ELSE W.metadata_file[1]

\* BookStorage.save_metadata (storage.py 42-50): the file is rewritten whole
save_metadata(W, metadata) == [W EXCEPT !.metadata_file = <<metadata>>]

\* the tail of _write_chapter: load the metadata, raise chapters_completed
\* to the chapter just written, write the metadata back
write_chapter(W, chapter_number) ==
    LET metadata_json == load_metadata(W)
        done == IF "chapters_completed" \in DOMAIN metadata_json
                  THEN IF metadata_json["chapters_completed"] > chapter_number
                         THEN metadata_json["chapters_completed"]
                         ELSE chapter_number
                  ELSE chapter_number
    IN save_metadata(W, DictSet(metadata_json, "chapters_completed", done))

WriteChapter ==
    \E chapter_number \in ChapterNumbers :
        /\ Call("write_chapter", write_chapter(World, chapter_number))
        /\ run' = -1
        /\ pre_pause' = <<>>
        /\ last_arg' = <<chapter_number>>
        /\ UNCHANGED failed_phase

NextChapters ==
    \/ Next
    \/ WriteChapter

SpecChapters == Init /\ [][NextChapters]_vars

\* C36: once the worker's chapters_completed is in the book's metadata it
\* stays there, with a value that never decreases, whatever workflow
\* operation saves state afterwards
C36_WorkerMetadataSurvives ==
    [][(/\ metadata_file # <<>>
        /\ "chapters_completed" \in DOMAIN load_metadata(World))
       => /\ metadata_file' # <<>>
          /\ "chapters_completed" \in DOMAIN metadata_file'[1]
          /\ metadata_file'[1]["chapters_completed"]
               >= metadata_file[1]["chapters_completed"]]_vars


\* storage.list_books (storage.py 278-315): one entry per directory under
\* the storage root, with the metadata of metadata.json or {} without it
list_books(D) ==
    {[book_id |-> b,
      metadata |-> IF D[b].metadata_file = <<>> THEN <<>>
                   ELSE D[b].metadata_file[1]] : b \in DOMAIN D}

\* C37: get_workflow and get_workflow_status for a book id with no persisted
\* state return None and leave the books list_books() reports as they were
C37_LookupLeavesBooksAlone ==
    [][(/\ mcalls' # mcalls
        /\ mgr_op'.op \in {"get_workflow", "get_workflow_status"}
        /\ ~Resolves(mgr_op'.book_id))
          => /\ mgr_op'.result = <<>>
             /\ list_books(disk') = list_books(disk)]_vars


(***************************************************************************)
(* get_conversation loop by loop (messaging.py 118-142).  The caller makes *)
(* its messages itself, Message(message_id=..., parent_id=...), so an id   *)
(* and the id it answers are any the caller chooses; ids stay distinct.    *)
(***************************************************************************)
SuppliedIds == 1..MaxMsgs

SendSupplied ==
    \E message_id \in SuppliedIds, parent_id \in {None} \cup SuppliedIds,
       recipient \in AgentIds :
        LET message == [NewMessage(message_id, "system", recipient, parent_id)
                            EXCEPT !.timestamp = Len(sent) + 1]
            B2 == send_message(Bus, message)
        IN /\ Len(sent) < MaxMsgs
           /\ message_id \notin MessageIds(history)
           /\ conversation.pc # "walking"
           /\ queues' = B2.queues
           /\ history' = B2.history
           /\ bus_op' = [op |-> "send_message", agent |-> recipient]
           /\ sent' = Append(sent, message)
           /\ UNCHANGED <<delivered, returned, conversation>>
           /\ UNCHANGED <<wfvars, ghostvars, threadvars, storevars_but_calls,
                          retry, request, creation>>

\* lines 123-128: the message is looked up; [] is returned without it,
\* otherwise the walk to the root starts at it
ConversationFind ==
    \E message_id \in SuppliedIds :
        LET msg == FindMessage(history, message_id)
        IN /\ conversation.pc # "walking"
           /\ bus_op' = [op |-> "get_conversation", agent |-> "none"]
           /\ IF msg = <<>>
                THEN /\ conversation' = [pc |-> "returned", root_msg |-> <<>>,
                                          turn |-> 0]
                     /\ returned' = <<>>
                ELSE /\ conversation' = [pc |-> "walking", root_msg |-> msg,
                                          turn |-> 0]
                     /\ UNCHANGED returned
           /\ UNCHANGED <<queues, history, sent, delivered>>
           /\ UNCHANGED <<wfvars, ghostvars, threadvars, storevars_but_calls,
                          retry, request, creation>>

\* one test of `while root_msg.parent_id` (129-134): the loop is left at a
\* message without parent_id or whose parent is not in the history, and the
\* thread is collected and sorted (136-142); otherwise root_msg = parent
ConversationWalk ==
    LET root_msg == conversation.root_msg[1]
        parent == IF root_msg.parent_id = None THEN <<>>
                  ELSE FindMessage(history, root_msg.parent_id)
    IN /\ conversation.pc = "walking"
       /\ IF parent = <<>>
            THEN /\ conversation' = [pc |-> "returned",
                                     root_msg |-> <<root_msg>>, turn |-> 0]
                 /\ returned' = SortByTimestamp(
                        add_children_to_thread(history, root_msg.message_id,
                                               <<root_msg>>))
            ELSE /\ conversation' = [conversation EXCEPT !.root_msg = parent,
                                                         !.turn = 1 - @]
                 /\ UNCHANGED returned
       /\ UNCHANGED <<queues, history, sent, delivered, bus_op>>
       /\ UNCHANGED <<wfvars, ghostvars, threadvars, storevars_but_calls,
                      retry, request, creation>>

NextWalk ==
    \/ SendSupplied
    \/ ConversationFind
    \/ ConversationWalk

\* the thread that runs get_conversation keeps running
SpecWalk == Init /\ [][NextWalk]_vars /\ WF_vars(ConversationWalk)

\* C38: a call of get_conversation that has started its walk to the root
\* returns, whatever parent_id chains the history holds
C38_ConversationTerminates ==
    (conversation.pc = "walking") ~> (conversation.pc = "returned")


\* the message maestro handles in this step, when the step handles one
HandlesNext(message_type) ==
    /\ batch["maestro"] # <<>>
    /\ batch'["maestro"] = Tail(batch["maestro"])
    /\ Head(batch["maestro"]).message_type = message_type

\* C39: when maestro handles an Error whose metadata names a book with a
\* workflow, the workflow is Failed afterwards and the error text is the last
\* of the errors of the phase that was current; an Error without book_id or
\* naming a book without workflow changes no workflow and sends no message
C39_ErrorFailsWorkflow ==
    [][HandlesNext(ERROR) =>
        LET message == Head(batch["maestro"])
            book_id == message.metadata.book_id
        IN IF book_id # <<>> /\ Resolves(book_id[1])
             THEN LET was == ResolvedWorld(book_id[1]).wf
                      wf == active_workflows'[book_id[1]]
                  IN /\ wf.status = FAILED
                     /\ disk'[book_id[1]].state_file = <<wf>>
                     /\ was.current_phase # None
                          => /\ wf.phases[was.current_phase].errors # <<>>
                             /\ wf.phases[was.current_phase].errors
                                  = Append(was.phases[was.current_phase].errors,
                                           message.content.error)
             ELSE /\ active_workflows' = active_workflows
                  /\ \A b \in DOMAIN disk : disk'[b] = disk[b]
                  /\ history' = history
                  /\ queues' = queues]_vars

\* maestro has handled a worker's Error for a started book: the workflow is
\* Failed with the error in its first phase
C39_Witness ==
    \E i \in 1..Len(handled["maestro"]) :
          LET message == handled["maestro"][i].message
          IN /\ message.message_type = ERROR
             /\ message.metadata.book_id # <<>>
             /\ message.metadata.book_id[1] \in DOMAIN active_workflows
             /\ active_workflows[message.metadata.book_id[1]].status = FAILED
             /\ active_workflows[message.metadata.book_id[1]].phases[1].errors
                  = <<"e1">>

=============================================================================
